---- MODULE Spec2Model ----
(***************************************************************************)
(* The sliding window of trade events of simonks2016/sliding_window: a     *)
(* fixed-capacity ring with capacity and time eviction, incrementally      *)
(* maintained aggregates, one writer under the write lock and readers that *)
(* mix lock-free atomic loads with read-locked passes over the ring.       *)
(* Time is counted in whole seconds, prices and volumes in ticks (QtyLoz). *)
(* float64 values are modelled as exact rationals <<num, den>>.            *)
(***************************************************************************)
EXTENDS Integers, Sequences, FiniteSets, TLC

\* ---- bounds of the model -------------------------------------------------
MaxTs == 2         \* largest timestamp of the general specification
MaxBatch == 2      \* largest number of points of one Add call
MaxVolV == 1       \* largest volume of the volume specification, ticks
ScenMaxTs == 5     \* largest timestamp of the scenario specification

\* ---- sides (breakoutStrength.go, second WindowPoint file) ---------------
SideUnknown == "Unknown"
SideBuy == "Buy"
SideSell == "Sell"
Side == {SideUnknown, SideBuy, SideSell}

WindowPoint(ts, price, vol, side) ==
    [Ts |-> ts, Price |-> price, Volume |-> vol, Side |-> side]

\* the zero value of a slot of make([]WindowPoint, capacity)
ZeroPoint == WindowPoint(0, 0, 0, SideUnknown)

\* ---- rationals standing for float64 -------------------------------------
RECURSIVE GCD(_, _)
GCD(a, b) == IF b = 0 THEN a ELSE GCD(b, a % b)

Abs(x) == IF x < 0 THEN -x ELSE x

\* n/d in lowest terms with a positive denominator
Rat(n, d) ==
    LET s == IF d < 0 THEN -1 ELSE 1
        g == GCD(Abs(n), Abs(d))
    IN  <<(s * n) \div g, (s * d) \div g>>

RatAdd(x, y) == Rat(x[1] * y[2] + y[1] * x[2], x[2] * y[2])
RatSub(x, y) == Rat(x[1] * y[2] - y[1] * x[2], x[2] * y[2])
RatMul(x, y) == Rat(x[1] * y[1], x[2] * y[2])
RatDiv(x, y) == Rat(x[1] * y[2], x[2] * y[1])
RatLE(x, y) == x[1] * y[2] <= y[1] * x[2]
RatLT(x, y) == x[1] * y[2] < y[1] * x[2]
RatZero == <<0, 1>>
RatOne == <<1, 1>>

\* Go's integer division truncates toward zero
TruncDiv(a, b) ==
    IF (a >= 0) = (b > 0) THEN Abs(a) \div Abs(b) ELSE -(Abs(a) \div Abs(b))

\* int64 arithmetic wraps around; the model keeps IntBits bits of it
IntBits == 8       \* bound: width of an int64 of the model, bits

RECURSIVE Pow2(_)
Pow2(n) == IF n = 0 THEN 1 ELSE 2 * Pow2(n - 1)

MaxInt64 == Pow2(IntBits - 1) - 1
MinInt64 == -Pow2(IntBits - 1)

\* the number of int64 values
Wrap == Pow2(IntBits)

\* the int64 a result wraps to
Int64(x) ==
    IF MinInt64 <= x /\ x <= MaxInt64 THEN x
    ELSE ((x - MinInt64) % Wrap) + MinInt64

\* ---- qtyLoz.go -----------------------------------------------------------
RECURSIVE Pow10(_)
Pow10(n) == IF n = 0 THEN 1 ELSE 10 * Pow10(n - 1)

NewQtyScaleFromDecimals(decimals) ==
    LET lo == IF decimals > 1 THEN decimals ELSE 1
        d == IF lo < 18 THEN lo ELSE 18
    IN  Pow10(d)

\* QtyLoz.Float: float64(q) / float64(scale)
Float(q, scale) == Rat(q, scale)

\* the epsilon of NewQtyLoz is 1 / Tiny
Tiny == 1000000000

\* math.Round(y + 1e-9) for the rational y: the nearest integer, a half going
\* away from zero; computed on 2 * y + 1 over 2 * den, where adding the
\* epsilon carries only if the remainder is within it of the next integer
RoundPlusEpsilon(y) ==
    LET a == y[1]
        b == y[2]
        up == 2 * a + b
        dn == b - 2 * a
    IN  IF a >= 0
        THEN (up \div (2 * b))
             + (IF 2 * b - (up % (2 * b)) <= (2 * b) \div Tiny THEN 1 ELSE 0)
        ELSE -((dn \div (2 * b))
               - (IF dn % (2 * b) < (2 * b + Tiny - 1) \div Tiny THEN 1 ELSE 0))

\* NewQtyLoz that converts with int64(x): toward zero
NewQtyLozTruncates(n, scale) ==
    LET y == RatMul(n, Rat(scale, 1))
    IN  IF y[1] >= 0 THEN y[1] \div y[2]
        ELSE -(((-y[1]) \div y[2]) - (IF (-y[1]) % y[2] = 0 THEN 1 ELSE 0))

\* qtyLoz.go NewQtyLoz: QtyLoz(math.Round(n * scale + 1e-9))
NewQtyLoz(n, scale) == RoundPlusEpsilon(RatMul(n, Rat(scale, 1)))

\* ---- EMA (unnamed/part_003) ----------------------------------------------
\* a float64 that is not a number: no comparison with it is true and every
\* sum or product with it is again not a number
NaN == <<0, 0>>
IsNaN(x) == x[2] = 0

FloatLE(x, y) == ~IsNaN(x) /\ ~IsNaN(y) /\ RatLE(x, y)
FloatLT(x, y) == ~IsNaN(x) /\ ~IsNaN(y) /\ RatLT(x, y)
FloatAdd(x, y) == IF IsNaN(x) \/ IsNaN(y) THEN NaN ELSE RatAdd(x, y)
FloatSub(x, y) == IF IsNaN(x) \/ IsNaN(y) THEN NaN ELSE RatSub(x, y)
FloatMul(x, y) == IF IsNaN(x) \/ IsNaN(y) THEN NaN ELSE RatMul(x, y)

NewEMA(alpha) ==
    LET a1 == IF FloatLE(alpha, RatZero) THEN Rat(1, 100) ELSE alpha
        a2 == IF FloatLT(RatOne, a1) THEN RatOne ELSE a1
    IN  [Value |-> RatZero, Alpha |-> a2, Initialized |-> FALSE]

Update(e, x) ==
    IF ~e.Initialized
    THEN [e EXCEPT !.Value = x, !.Initialized = TRUE]
    ELSE [e EXCEPT !.Value = FloatAdd(FloatMul(e.Alpha, x),
                                      FloatMul(FloatSub(RatOne, e.Alpha),
                                               e.Value))]

\* ---- the window (struct SlidingWindow) -----------------------------------
VARIABLES
    w,          \* the SlidingWindow object: ring, aggregates, atomics
    mu,         \* w.mu: [writer |-> BOOLEAN, readers |-> Nat]
    pc,         \* position of the writer inside Add: "idle", "empty", "loop"
    rem,        \* points of the running Add call not yet visited by the loop
    threshold,  \* local threshold of the running add (0 outside add)
    mono,       \* history: every event supplied so far had Ts >= its predecessor
    prevTs,     \* history: Ts of the event supplied last (while mono)
    lastOp,     \* history: branch the running add took for its last point
    lastPt,     \* history: the point stored last
    hist,       \* history: Ts of the points supplied so far, or HistOff
    commits,    \* history: the window after each completed Add, or CommitsOff
    rpc,        \* position of the reader inside its operation
    r,          \* the reader's operation, locals and result
    pricesPool  \* the scratch buffers: where each one is, its length and capacity

LenBuf(win) == Cardinality(DOMAIN win.buf)

NewSlidingWindow(duration, capacity, emaAlpha) ==
    [duration |-> duration,
     buf |-> [i \in 0 .. capacity - 1 |-> ZeroPoint],
     start |-> 0,
     size |-> 0,
     sumVolume |-> 0,
     ema |-> NewEMA(emaAlpha),
     priceScale |-> 0,
     volumeScale |-> 0,
     nTrades |-> 0,
     SumV |-> 0,
     SumPV |-> 0,
     buyVol |-> 0,
     sellVol |-> 0,
     LatestPrice |-> 0,
     HighestPrice |-> 0,
     LowestPrice |-> 0,
     hiLoDirty |-> FALSE,
     avgVolPerPoint |-> 0,
     volPerSecond |-> 0]

\* the fixed scales chosen at construction
WithScales(win, priceDecimals, volumeDecimals) ==
    [win EXCEPT !.priceScale = NewQtyScaleFromDecimals(priceDecimals),
                !.volumeScale = NewQtyScaleFromDecimals(volumeDecimals)]

atUnlocked(win, i) == win.buf[(win.start + i) % LenBuf(win)]

lastUnlocked(win) == atUnlocked(win, win.size - 1)

\* time.Time.After
After(t, u) == t > u

\* the retained events, oldest first
Ring(win) == [i \in 1 .. win.size |-> atUnlocked(win, i - 1)]

\* applyAddPointUnlocked that books an Unknown side as a buy
applyAddPointUnknownAsBuy(win, pt) ==
    LET px == pt.Price
        v == IF pt.Volume < 0 THEN 0 ELSE pt.Volume
        w1 == [win EXCEPT
                 !.sumVolume = @ + pt.Volume,
                 !.ema = IF pt.Volume > 0
                         THEN Update(@, Rat(pt.Volume, win.volumeScale))
                         ELSE @,
                 !.nTrades = @ + 1,
                 !.SumV = @ + v,
                 !.SumPV = @ + px * v]
        hiLo(x) == [x EXCEPT
                 !.LatestPrice = px,
                 !.HighestPrice = IF @ = 0 \/ px > @ THEN px ELSE @,
                 !.LowestPrice = IF @ = 0 \/ px < @ THEN px ELSE @]
    IN  CASE pt.Side = SideBuy -> hiLo([w1 EXCEPT !.buyVol = @ + v])
          [] pt.Side = SideSell -> hiLo([w1 EXCEPT !.sellVol = @ + v])
          [] OTHER -> [w1 EXCEPT !.buyVol = @ + v]

\* applyAddPointUnlocked without the clamp of a negative volume
applyAddPointNoClamp(win, pt) ==
    LET px == pt.Price
        v == pt.Volume
        w1 == [win EXCEPT
                 !.sumVolume = @ + pt.Volume,
                 !.ema = IF pt.Volume > 0
                         THEN Update(@, Rat(pt.Volume, win.volumeScale))
                         ELSE @,
                 !.nTrades = @ + 1,
                 !.SumV = @ + v,
                 !.SumPV = @ + px * v]
        hiLo(x) == [x EXCEPT
                 !.LatestPrice = px,
                 !.HighestPrice = IF @ = 0 \/ px > @ THEN px ELSE @,
                 !.LowestPrice = IF @ = 0 \/ px < @ THEN px ELSE @]
    IN  CASE pt.Side = SideBuy -> hiLo([w1 EXCEPT !.buyVol = @ + v])
          [] pt.Side = SideSell -> hiLo([w1 EXCEPT !.sellVol = @ + v])
          [] OTHER -> w1

applyAddPointUnlocked(win, pt) ==
    LET px == pt.Price
        v == IF pt.Volume < 0 THEN 0 ELSE pt.Volume
        w1 == [win EXCEPT
                 !.sumVolume = Int64(@ + pt.Volume),
                 !.ema = IF pt.Volume > 0
                         THEN Update(@, Rat(pt.Volume, win.volumeScale))
                         ELSE @,
                 !.nTrades = @ + 1,
                 !.SumV = Int64(@ + v),
                 !.SumPV = Int64(@ + Int64(px * v))]
        hiLo(x) == [x EXCEPT
                 !.LatestPrice = px,
                 !.HighestPrice = IF @ = 0 \/ px > @ THEN px ELSE @,
                 !.LowestPrice = IF @ = 0 \/ px < @ THEN px ELSE @]
    IN  CASE pt.Side = SideBuy -> hiLo([w1 EXCEPT !.buyVol = Int64(@ + v)])
          [] pt.Side = SideSell -> hiLo([w1 EXCEPT !.sellVol = Int64(@ + v)])
          [] OTHER -> w1

\* applyRemovePointUnlocked that leaves buyVol as it is
applyRemovePointKeepsBuyVol(win, pt) ==
    LET px == pt.Price
        v == IF pt.Volume < 0 THEN 0 ELSE pt.Volume
        w1 == [win EXCEPT
                 !.sumVolume = @ - pt.Volume,
                 !.nTrades = @ - 1,
                 !.SumV = @ - v,
                 !.SumPV = @ - px * v]
        dirty(x) == [x EXCEPT
                 !.hiLoDirty = IF px = x.HighestPrice \/ px = x.LowestPrice
                               THEN TRUE ELSE @]
    IN  CASE pt.Side = SideBuy -> dirty(w1)
          [] pt.Side = SideSell -> dirty([w1 EXCEPT !.sellVol = @ - v])
          [] OTHER -> w1

\* applyRemovePointUnlocked that also takes the baseline back
applyRemovePointRollsBackEma(win, pt) ==
    LET px == pt.Price
        v == IF pt.Volume < 0 THEN 0 ELSE pt.Volume
        w1 == [win EXCEPT
                 !.sumVolume = @ - pt.Volume,
                 !.ema = [@ EXCEPT !.Value = RatZero, !.Initialized = FALSE],
                 !.nTrades = @ - 1,
                 !.SumV = @ - v,
                 !.SumPV = @ - px * v]
        dirty(x) == [x EXCEPT
                 !.hiLoDirty = IF px = x.HighestPrice \/ px = x.LowestPrice
                               THEN TRUE ELSE @]
    IN  CASE pt.Side = SideBuy -> dirty([w1 EXCEPT !.buyVol = @ - v])
          [] pt.Side = SideSell -> dirty([w1 EXCEPT !.sellVol = @ - v])
          [] OTHER -> w1

\* applyRemovePointUnlocked that takes out a product held at the largest int64
applyRemovePointSaturates(win, pt) ==
    LET px == pt.Price
        v == IF pt.Volume < 0 THEN 0 ELSE pt.Volume
        pv == IF px * v > MaxInt64 THEN MaxInt64
              ELSE IF px * v < MinInt64 THEN MinInt64 ELSE px * v
        w1 == [win EXCEPT
                 !.sumVolume = Int64(@ - pt.Volume),
                 !.nTrades = @ - 1,
                 !.SumV = Int64(@ - v),
                 !.SumPV = Int64(@ - pv)]
        dirty(x) == [x EXCEPT
                 !.hiLoDirty = IF px = x.HighestPrice \/ px = x.LowestPrice
                               THEN TRUE ELSE @]
    IN  CASE pt.Side = SideBuy -> dirty([w1 EXCEPT !.buyVol = Int64(@ - v)])
          [] pt.Side = SideSell -> dirty([w1 EXCEPT !.sellVol = Int64(@ - v)])
          [] OTHER -> w1

applyRemovePointUnlocked(win, pt) ==
    LET px == pt.Price
        v == IF pt.Volume < 0 THEN 0 ELSE pt.Volume
        w1 == [win EXCEPT
                 !.sumVolume = Int64(@ - pt.Volume),
                 !.nTrades = @ - 1,
                 !.SumV = Int64(@ - v),
                 !.SumPV = Int64(@ + Int64(-Int64(px * v)))]
        dirty(x) == [x EXCEPT
                 !.hiLoDirty = IF px = x.HighestPrice \/ px = x.LowestPrice
                               THEN TRUE ELSE @]
    IN  CASE pt.Side = SideBuy -> dirty([w1 EXCEPT !.buyVol = Int64(@ - v)])
          [] pt.Side = SideSell -> dirty([w1 EXCEPT !.sellVol = Int64(@ - v)])
          [] OTHER -> w1

\* addPoint with the append branch taken at size == len(buf) too
addPointAppendAtCapacity(win, pt, th) ==
    IF ~After(pt.Ts, th) THEN win
    ELSE IF win.size = 0
         THEN applyAddPointUnlocked(
                 [win EXCEPT !.buf[0] = pt, !.start = 0, !.size = 1], pt)
    ELSE applyAddPointUnlocked(
                 [win EXCEPT !.buf[(win.start + win.size) % LenBuf(win)] = pt,
                             !.size = @ + 1], pt)

\* addPoint with an overwrite that does not advance start
addPointNoAdvance(win, pt, th) ==
    IF ~After(pt.Ts, th) THEN win
    ELSE IF win.size = 0
         THEN applyAddPointUnlocked(
                 [win EXCEPT !.buf[0] = pt, !.start = 0, !.size = 1], pt)
    ELSE IF win.size < LenBuf(win)
         THEN applyAddPointUnlocked(
                 [win EXCEPT !.buf[(win.start + win.size) % LenBuf(win)] = pt,
                             !.size = @ + 1], pt)
    ELSE applyAddPointUnlocked(
             [applyRemovePointUnlocked(win, win.buf[win.start]) EXCEPT
                 !.buf[win.start] = pt], pt)

\* addPoint that takes every point for one after the threshold
addPointNoSkip(win, pt, th) ==
    IF win.size = 0
    THEN applyAddPointUnlocked(
             [win EXCEPT !.buf[0] = pt, !.start = 0, !.size = 1], pt)
    ELSE IF win.size < LenBuf(win)
    THEN applyAddPointUnlocked(
             [win EXCEPT !.buf[(win.start + win.size) % LenBuf(win)] = pt,
                         !.size = @ + 1], pt)
    ELSE LET idx == win.start
             old == win.buf[idx]
             w1 == applyRemovePointUnlocked(win, old)
         IN  applyAddPointUnlocked(
                 [w1 EXCEPT !.buf[idx] = pt,
                            !.start = (@ + 1) % LenBuf(win)], pt)

\* the body of the loop of add for one point
addPoint(win, pt, th) ==
    IF ~After(pt.Ts, th) THEN win
    ELSE IF win.size = 0
         THEN applyAddPointUnlocked(
                 [win EXCEPT !.buf[0] = pt, !.start = 0, !.size = 1], pt)
    ELSE IF win.size < LenBuf(win)
         THEN applyAddPointUnlocked(
                 [win EXCEPT !.buf[(win.start + win.size) % LenBuf(win)] = pt,
                             !.size = @ + 1], pt)
    ELSE LET idx == win.start
             old == win.buf[idx]
             w1 == applyRemovePointUnlocked(win, old)
         IN  applyAddPointUnlocked(
                 [w1 EXCEPT !.buf[idx] = pt,
                            !.start = (@ + 1) % LenBuf(win)], pt)

\* the branch addPoint takes
addBranch(win, pt, th) ==
    IF ~After(pt.Ts, th) THEN "skip"
    ELSE IF win.size = 0 THEN "seat"
    ELSE IF win.size < LenBuf(win) THEN "append"
    ELSE "overwrite"

\* trimLoop that keeps a head whose Ts equals the threshold
RECURSIVE trimLoopKeepsBoundary(_, _)
trimLoopKeepsBoundary(win, th) ==
    IF win.size > 0 /\ win.buf[win.start].Ts < th
    THEN trimLoopKeepsBoundary(
             [applyRemovePointUnlocked(win, win.buf[win.start]) EXCEPT
                 !.start = (@ + 1) % LenBuf(win),
                 !.size = @ - 1], th)
    ELSE win

RECURSIVE trimLoop(_, _)
trimLoop(win, th) ==
    IF win.size > 0 /\ ~After(win.buf[win.start].Ts, th)
    THEN trimLoop([applyRemovePointUnlocked(win, win.buf[win.start]) EXCEPT
                      !.start = (@ + 1) % LenBuf(win),
                      !.size = @ - 1], th)
    ELSE win

\* trimExpiredUnlocked without the reset of an emptied window
trimExpiredNoReset(win, th) ==
    LET w1 == trimLoop(win, th)
    IN  IF w1.size = 0 THEN w1
        ELSE [w1 EXCEPT !.LatestPrice =
                  w1.buf[(w1.start + w1.size - 1) % LenBuf(w1)].Price]

\* trimExpiredUnlocked that leaves the latest price of a non-empty window
trimExpiredKeepsLatest(win, th) ==
    LET w1 == trimLoop(win, th)
    IN  IF w1.size = 0
        THEN [w1 EXCEPT !.LatestPrice = 0, !.hiLoDirty = FALSE,
                        !.HighestPrice = 0, !.LowestPrice = 0]
        ELSE w1

trimExpiredUnlocked(win, th) ==
    LET w1 == trimLoop(win, th)
    IN  IF w1.size = 0
        THEN [w1 EXCEPT !.LatestPrice = 0, !.hiLoDirty = FALSE,
                        !.HighestPrice = 0, !.LowestPrice = 0]
        ELSE [w1 EXCEPT !.LatestPrice =
                  w1.buf[(w1.start + w1.size - 1) % LenBuf(w1)].Price]

\* extrema of the prices of a non-empty sequence of points
RECURSIVE MaxPriceOf(_)
MaxPriceOf(s) ==
    IF Len(s) = 1 THEN s[1].Price
    ELSE LET m == MaxPriceOf(Tail(s))
         IN  IF s[1].Price > m THEN s[1].Price ELSE m

RECURSIVE MinPriceOf(_)
MinPriceOf(s) ==
    IF Len(s) = 1 THEN s[1].Price
    ELSE LET m == MinPriceOf(Tail(s))
         IN  IF s[1].Price < m THEN s[1].Price ELSE m

recomputeHighLowIfDirtyUnlocked(win) ==
    IF ~win.hiLoDirty THEN win
    ELSE IF win.size = 0
         THEN [win EXCEPT !.HighestPrice = 0, !.LowestPrice = 0,
                          !.hiLoDirty = FALSE]
    ELSE [win EXCEPT !.HighestPrice = MaxPriceOf(Ring(win)),
                     !.LowestPrice = MinPriceOf(Ring(win)),
                     !.hiLoDirty = FALSE]

refreshVolumeCachesUnlocked(win) ==
    IF win.size <= 0
    THEN [win EXCEPT !.avgVolPerPoint = 0, !.volPerSecond = 0]
    ELSE LET w1 == [win EXCEPT
                      !.avgVolPerPoint = TruncDiv(win.sumVolume, win.size)]
             sec == lastUnlocked(win).Ts - atUnlocked(win, 0).Ts
         IN  IF win.size < 2 \/ sec <= 0
             THEN [w1 EXCEPT !.volPerSecond = 0]
             ELSE [w1 EXCEPT !.volPerSecond = TruncDiv(win.sumVolume, sec)]

\* addFinish without the trim of the expired head
addFinishNoTrim(win, th) ==
    refreshVolumeCachesUnlocked(recomputeHighLowIfDirtyUnlocked(win))

\* addFinish without the rescan of the extrema
addFinishNoRescan(win, th) ==
    refreshVolumeCachesUnlocked(trimExpiredUnlocked(win, th))

\* what add does after its loop
addFinish(win, th) ==
    refreshVolumeCachesUnlocked(
        recomputeHighLowIfDirtyUnlocked(trimExpiredUnlocked(win, th)))

\* the loop of add over the points of a batch
RECURSIVE addLoop(_, _, _)
addLoop(win, pts, th) ==
    IF pts = <<>> THEN win
    ELSE addLoop(addPoint(win, pts[1], th), Tail(pts), th)

\* unnamed/part_000 add for a batch of at least one point
add(win, pts) ==
    LET th == pts[Len(pts)].Ts - win.duration
    IN  addFinish(addLoop(win, pts, th), th)

\* one Add call per point of pts
RECURSIVE addEach(_, _)
addEach(win, pts) ==
    IF pts = <<>> THEN win
    ELSE addEach(add(win, <<pts[1]>>), Tail(pts))

\* add with no point that still trims and refreshes
addNoneTrims(win) == addFinish(win, 0)

\* add with no point: the return at len(pts) == 0
addNone(win) == win

\* ---- read side: pure parts ------------------------------------------------
\* common.go DeltaVolume, from the two values it loads
DeltaVolume(bv, sv, scale) == RatSub(Rat(bv, scale), Rat(sv, scale))

\* common.go Imbalance, from the two values it loads
Imbalance(bv, sv, scale) ==
    LET den == RatAdd(Rat(bv, scale), Rat(sv, scale))
    IN  IF RatLE(den, RatZero) THEN RatZero
        ELSE RatDiv(RatSub(Rat(bv, scale), Rat(sv, scale)), den)

NoStats ==
    [ok |-> FALSE, Prices |-> <<>>, SumPV |-> RatZero, SumV |-> RatZero,
     HighTicks |-> RatZero, LowTicks |-> RatZero,
     NewestTicks |-> RatZero, OldestTicks |-> RatZero]

RECURSIVE SumPVOf(_, _, _)
SumPVOf(s, ps, vs) ==
    IF s = <<>> THEN RatZero
    ELSE RatAdd(RatMul(Float(s[1].Price, ps), Float(s[1].Volume, vs)),
                SumPVOf(Tail(s), ps, vs))

RECURSIVE SumVOf(_, _)
SumVOf(s, vs) ==
    IF s = <<>> THEN RatZero
    ELSE RatAdd(Float(s[1].Volume, vs), SumVOf(Tail(s), vs))

\* equilibriumZone.go collectStats, under the read lock; lenPrices = len(prices)
collectStats(win, lenPrices) ==
    IF win.size < 2 \/ lenPrices < win.size THEN NoStats
    ELSE [ok |-> TRUE,
          Prices |-> [i \in 1 .. win.size |->
                         Float(Ring(win)[i].Price, win.priceScale)],
          SumPV |-> SumPVOf(Ring(win), win.priceScale, win.volumeScale),
          SumV |-> SumVOf(Ring(win), win.volumeScale),
          HighTicks |-> Float(MaxPriceOf(Ring(win)), win.priceScale),
          LowTicks |-> Float(MinPriceOf(Ring(win)), win.priceScale),
          NewestTicks |-> Float(lastUnlocked(win).Price, win.priceScale),
          OldestTicks |-> Float(atUnlocked(win, 0).Price, win.priceScale)]

\* vwap.go vwap: <<value, ok>>
vwap(stats) ==
    IF RatLE(stats.SumV, RatZero) THEN <<RatZero, FALSE>>
    ELSE <<RatDiv(stats.SumPV, stats.SumV), TRUE>>

\* the log-return terms RealizedVol squares and sums: <<cur, prev>> for each
\* i with cur > 0; prev becomes cur in every turn
RECURSIVE rvTerms(_, _, _, _)
rvTerms(win, i, prev, acc) ==
    IF i >= win.size THEN acc
    ELSE LET cur == Float(atUnlocked(win, i).Price, win.priceScale)
         IN  IF RatLE(cur, RatZero)
             THEN rvTerms(win, i + 1, cur, acc)
             ELSE rvTerms(win, i + 1, cur, Append(acc, <<cur, prev>>))

\* common.go RealizedVol, under the read lock: <<terms of sumsq, ok>>; the
\* value is Sqrt of the sum of Log(cur / prev)^2 over the terms
RealizedVol(win) ==
    IF win.size < 2 THEN <<(<<>>), FALSE>>
    ELSE LET prev == Float(atUnlocked(win, 0).Price, win.priceScale)
         IN  IF RatLE(prev, RatZero) THEN <<(<<>>), FALSE>>
             ELSE <<rvTerms(win, 1, prev, <<>>), TRUE>>

\* ---- analytics: pure parts --------------------------------------------------
RatAbs(x) == <<Abs(x[1]), x[2]>>
RatNeg(x) == <<-x[1], x[2]>>

RECURSIVE DivPow10(_, _)
DivPow10(d, k) == IF k = 0 THEN d ELSE DivPow10(d \div 10, k - 1)

\* x <= 1e-k and x < 1e-k, computed without forming 10^k * numerator
LeTenToMinus(x, k) == x[1] <= DivPow10(x[2], k)
LtTenToMinus(x, k) == x[1] <= DivPow10(x[2] - 1, k)

\* unnamed/part_003 EMA.Get: <<value, ok>>
Get(e) == IF ~e.Initialized THEN <<RatZero, FALSE>> ELSE <<e.Value, TRUE>>

\* volumeFactor.go volumeFactor: <<vf, ok>>; vf is finite whenever the
\* baseline is positive, so the NaN / Inf test never adds a case
volumeFactor(win) ==
    LET g == Get(win.ema)
        currAvg == RatDiv(Rat(win.sumVolume, win.size), Rat(win.volumeScale, 1))
        vf == RatDiv(currAvg, g[1])
    IN  IF ~g[2] \/ RatLE(g[1], RatZero) THEN <<RatZero, FALSE>>
        ELSE IF win.size <= 0 THEN <<RatZero, FALSE>>
        ELSE IF win.sumVolume <= 0 THEN <<RatZero, FALSE>>
        ELSE IF RatLE(currAvg, RatZero) THEN <<RatZero, FALSE>>
        ELSE IF RatLE(vf, RatZero) THEN <<RatZero, FALSE>>
        ELSE <<vf, TRUE>>

\* common.go structuralReturn: <<ret, ok>>
structuralReturn(win) ==
    IF win.size <= 0 \/ LenBuf(win) <= 0 THEN <<RatZero, FALSE>>
    ELSE LET old == atUnlocked(win, 0)
             newest == lastUnlocked(win)
         IN  IF old.Price = 0 THEN <<RatZero, FALSE>>
             ELSE <<RatDiv(RatSub(Float(newest.Price, win.priceScale),
                                  Float(old.Price, win.priceScale)),
                           Float(old.Price, win.priceScale)), TRUE>>

\* Momentum that looks at the structural return only
MomentumIgnoresVolumeFactor(win) ==
    LET vf == volumeFactor(win)
        sr == structuralReturn(win)
    IN  IF sr[2] THEN <<sr[1], vf[1], TRUE>> ELSE <<RatZero, RatZero, FALSE>>

\* momentum.go Momentum: <<ret, vf, ok>>; the value is ret * Log1p(vf)
Momentum(win) ==
    LET vf == volumeFactor(win)
        sr == structuralReturn(win)
    IN  IF vf[2] /\ sr[2] THEN <<sr[1], vf[1], TRUE>>
        ELSE <<RatZero, RatZero, FALSE>>

\* sort.Float64s: ascending
RECURSIVE Insert(_, _)
Insert(x, s) ==
    IF s = <<>> THEN <<x>>
    ELSE IF RatLE(x, s[1]) THEN <<x>> \o s
    ELSE <<s[1]>> \o Insert(x, Tail(s))

RECURSIVE Sort(_)
Sort(s) == IF s = <<>> THEN <<>> ELSE Insert(s[1], Sort(Tail(s)))

\* the median taken as the upper middle element whatever the count
MiddleOfUpper(p) == p[Len(p) \div 2 + 1]

\* the median of sorted prices p, n = len(p) >= 1 (0-based p[n/2] is p[n \div 2 + 1])
MiddleOf(p) ==
    LET n == Len(p)
    IN  IF n % 2 = 1 THEN p[n \div 2 + 1]
        ELSE RatDiv(RatAdd(p[n \div 2], p[n \div 2 + 1]), Rat(2, 1))

\* medianPrice.go medianPrice: <<median, ok>>
medianPrice(stats) == <<MiddleOf(Sort(stats.Prices)), TRUE>>

\* medianPrice.go MedianPrice: <<median, ok>>
MedianPrice(win) ==
    LET st == collectStats(win, win.size)
    IN  IF ~st.ok THEN <<RatZero, FALSE>> ELSE medianPrice(st)

NoZone ==
    [ok |-> FALSE, EquPrice |-> RatZero, UpperBand |-> RatZero,
     LowerBand |-> RatZero, BandWidth |-> RatZero, Price |-> RatZero,
     Distance |-> RatZero, NormDist |-> RatZero, at |-> "size"]

\* equilibriumZone.go EquilibriumZone; at names the return taken: "size"
\* (line 82), "volume" (117), "range" (136), "band" (148), "ok" (165)
EquilibriumZone(win, alpha, beta) ==
    IF win.size < 2 THEN NoZone
    ELSE
    LET n == win.size
        prices == [i \in 1 .. n |-> Float(Ring(win)[i].Price, win.priceScale)]
        high == Float(MaxPriceOf(Ring(win)), win.priceScale)
        low == Float(MinPriceOf(Ring(win)), win.priceScale)
        oldest == Float(atUnlocked(win, 0).Price, win.priceScale)
        newest == Float(lastUnlocked(win).Price, win.priceScale)
        sumPV == SumPVOf(Ring(win), win.priceScale, win.volumeScale)
        sumV == SumVOf(Ring(win), win.volumeScale)
        vw == RatDiv(sumPV, sumV)
        median == MiddleOf(Sort(prices))
        equ == RatAdd(RatMul(alpha, vw), RatMul(RatSub(RatOne, alpha), median))
        rng == RatSub(high, low)
        ret == RatDiv(RatSub(newest, oldest), oldest)
        retScale == RatMul(RatAbs(ret), newest)
        bw0 == RatMul(beta, rng)
        bw == IF RatLT(bw0, retScale) THEN retScale ELSE bw0
        dist == RatSub(newest, equ)
    IN  IF RatLE(sumV, RatZero) THEN [NoZone EXCEPT !.at = "volume"]
        ELSE IF RatLE(rng, RatZero) \/ oldest = RatZero
        THEN [NoZone EXCEPT !.at = "range"]
        ELSE IF LeTenToMinus(bw, 12) THEN [NoZone EXCEPT !.at = "band"]
        ELSE [ok |-> TRUE, EquPrice |-> equ, UpperBand |-> RatAdd(equ, bw),
              LowerBand |-> RatSub(equ, bw), BandWidth |-> bw,
              Price |-> newest, Distance |-> dist,
              NormDist |-> RatDiv(dist, bw), at |-> "ok"]

Clamp1(x) ==
    IF RatLT(RatOne, x) THEN RatOne
    ELSE IF RatLT(x, RatNeg(RatOne)) THEN RatNeg(RatOne) ELSE x

\* ScoreWithMomentum with dirScale < 1e-6 and momentumScale < 1e-6 as the test
ScoreWithMomentumStrictScale(win, currentMomentum, dirScale, momentumScale, orderFlowConfidence) ==
    IF LtTenToMinus(dirScale, 6) \/ LtTenToMinus(momentumScale, 6)
    THEN <<RatZero, "scale">>
    ELSE IF win.size < 2 THEN <<RatZero, "size">>
    ELSE
    LET pOld == Rat(atUnlocked(win, 0).Price, 1)
        pNew == Rat(lastUnlocked(win).Price, 1)
        side == IF pOld # RatZero THEN RatDiv(RatSub(pNew, pOld), pOld)
                ELSE RatZero
        dirFactor == Clamp1(RatDiv(side, dirScale))
        momFactor == Clamp1(RatDiv(currentMomentum, momentumScale))
        trendFactor == RatAdd(RatMul(Rat(1, 2), dirFactor),
                              RatMul(Rat(1, 2), momFactor))
        conf == Clamp1(orderFlowConfidence)
        trendSign == IF RatLT(trendFactor, RatZero) THEN RatNeg(RatOne) ELSE RatOne
        strength == RatAbs(trendFactor)
        cw0 == RatDiv(RatAdd(RatOne, RatMul(trendSign, conf)), Rat(2, 1))
        confWeight == IF RatLT(cw0, RatZero) THEN RatZero
                      ELSE IF RatLT(RatOne, cw0) THEN RatOne ELSE cw0
    IN  IF LtTenToMinus(RatAbs(trendFactor), 8) THEN <<RatZero, "nil">>
        ELSE <<RatMul(RatMul(trendSign, strength), confWeight), "nil">>

\* slidingWindow.go ScoreWithMomentum: <<score, err>>, err = "nil" or the
\* kind of the error value
ScoreWithMomentum(win, currentMomentum, dirScale, momentumScale, orderFlowConfidence) ==
    IF LeTenToMinus(dirScale, 6) \/ LeTenToMinus(momentumScale, 6)
    THEN <<RatZero, "scale">>
    ELSE IF win.size < 2 THEN <<RatZero, "size">>
    ELSE
    LET pOld == Rat(atUnlocked(win, 0).Price, 1)
        pNew == Rat(lastUnlocked(win).Price, 1)
        side == IF pOld # RatZero THEN RatDiv(RatSub(pNew, pOld), pOld)
                ELSE RatZero
        dirFactor == Clamp1(RatDiv(side, dirScale))
        momFactor == Clamp1(RatDiv(currentMomentum, momentumScale))
        trendFactor == RatAdd(RatMul(Rat(1, 2), dirFactor),
                              RatMul(Rat(1, 2), momFactor))
        conf == Clamp1(orderFlowConfidence)
        trendSign == IF RatLT(trendFactor, RatZero) THEN RatNeg(RatOne) ELSE RatOne
        strength == RatAbs(trendFactor)
        cw0 == RatDiv(RatAdd(RatOne, RatMul(trendSign, conf)), Rat(2, 1))
        confWeight == IF RatLT(cw0, RatZero) THEN RatZero
                      ELSE IF RatLT(RatOne, cw0) THEN RatOne ELSE cw0
    IN  IF LtTenToMinus(RatAbs(trendFactor), 8) THEN <<RatZero, "nil">>
        ELSE <<RatMul(RatMul(trendSign, strength), confWeight), "nil">>

NoSignal ==
    [ok |-> FALSE, Ret |-> RatZero, VolumeFactor |-> RatZero, VWAP |-> RatZero,
     Median |-> RatZero, VwapMinusMedian |-> RatZero, Base |-> RatZero,
     at |-> "size"]

\* unnamed/part_004 AbsorptionDistribution(minVF, maxAbsRet, ., .), for
\* maxAbsRet > 0; Score is Base * Log1p(VolumeFactor), and Kind compares it
\* with the two score thresholds; at names the return taken: "size" (line
\* 44), "vf" (60), "zero" (80), "trend" (86), "quiet" (90), "scale" (108),
\* "ok" (141)
AbsorptionDistribution(win, minVF, maxAbsRet) ==
    IF win.size < 2 THEN NoSignal
    ELSE
    LET n == win.size
        prices == [i \in 1 .. n |-> Float(Ring(win)[i].Price, win.priceScale)]
        oldestPx == Float(atUnlocked(win, 0).Price, win.priceScale)
        newestPx == Float(lastUnlocked(win).Price, win.priceScale)
        vf == volumeFactor(win)
        sumPV == SumPVOf(Ring(win), win.priceScale, win.volumeScale)
        sumV == SumVOf(Ring(win), win.volumeScale)
        ret == RatDiv(RatSub(newestPx, oldestPx), oldestPx)
        vw == RatDiv(sumPV, sumV)
        median == MiddleOf(Sort(prices))
        diff == RatSub(vw, median)
        scale == RatAbs(median)
        diffNorm == RatDiv(diff, scale)
        part == RatDiv(RatAbs(ret), maxAbsRet)
        sideways == RatSub(RatOne, IF RatLT(part, RatOne) THEN part ELSE RatOne)
    IN  IF ~vf[2] THEN [NoSignal EXCEPT !.at = "vf"]
        ELSE IF oldestPx = RatZero \/ RatLE(sumV, RatZero)
        THEN [NoSignal EXCEPT !.at = "zero"]
        ELSE IF RatLT(maxAbsRet, RatAbs(ret)) THEN [NoSignal EXCEPT !.at = "trend"]
        ELSE IF RatLT(vf[1], minVF) THEN [NoSignal EXCEPT !.at = "quiet"]
        ELSE IF LeTenToMinus(scale, 12) THEN [NoSignal EXCEPT !.at = "scale"]
        ELSE [ok |-> TRUE, Ret |-> ret, VolumeFactor |-> vf[1], VWAP |-> vw,
              Median |-> median, VwapMinusMedian |-> diff,
              Base |-> RatMul(diffNorm, sideways), at |-> "ok"]

\* the reader before any call
NoCall ==
    [op |-> "none", ret |-> "none",
     hi |-> 0, lo |-> 0, latest |-> 0, nTrades |-> 0,
     n |-> 0, sizeSeen |-> 0, stats |-> NoStats, vwap |-> RatZero,
     ldb |-> 0, dv |-> RatZero, imb |-> RatZero, rv |-> <<>>,
     total |-> RatZero, bv |-> RatZero, sv |-> RatZero,
     val |-> RatZero, mom |-> <<RatZero, RatZero>>, zone |-> NoZone,
     sig |-> NoSignal, args |-> <<>>, pb |-> 0, gets |-> 0, puts |-> 0,
     q |-> 0]

\* ---- the pool of price buffers (equilibriumZone.go) ------------------------
MaxBufs == 2       \* bound: buffer objects alive at once

MinCap == 256
maxCap == 65536

\* no object: the slot of a buffer not yet made, or dropped
NoBuf == [where |-> "none", len |-> 0, cap |-> 0, req |-> 0]

\* what the pool's New makes: an empty buffer
NewPricesBuf == [where |-> "new", len |-> 0, cap |-> 0, req |-> 0]

RECURSIVE Doubled(_, _)
Doubled(c, n) == IF c < n THEN Doubled(2 * c, n) ELSE c

\* getPricesBuf that makes a buffer of capacity n
getPricesBufExact(p, n) ==
    IF p.cap < n
    THEN [p EXCEPT !.where = "held", !.len = n, !.cap = n, !.req = n]
    ELSE [p EXCEPT !.where = "held", !.len = n, !.req = n]

\* getPricesBuf on the object p that Get returned
getPricesBuf(p, n) ==
    IF p.cap < n
    THEN [p EXCEPT !.where = "held", !.len = n,
                   !.cap = Doubled(IF p.cap < MinCap THEN MinCap ELSE p.cap, n),
                   !.req = n]
    ELSE [p EXCEPT !.where = "held", !.len = n, !.req = n]

\* putPricesBuf that pools a buffer of any capacity
putPricesBufKeepsAll(p) == [p EXCEPT !.where = "pool", !.len = 0, !.req = 0]

\* putPricesBuf: an oversized buffer is left to the collector
putPricesBuf(p) ==
    IF p.cap > maxCap THEN NoBuf
    ELSE [p EXCEPT !.where = "pool", !.len = 0, !.req = 0]

\* the objects pricesPool.Get may hand out: any pooled one, and one New
\* makes when the pool is empty; of equal objects the first
GetSlots(pool) ==
    LET pooled == {i \in 1 .. MaxBufs : pool[i].where = "pool"}
        free == IF pooled # {} THEN pooled
                ELSE {i \in 1 .. MaxBufs : pool[i].where = "none"}
    IN  {i \in free : \A j \in free : j < i => pool[j] # pool[i]}

\* the pool after getPricesBuf(n) took object i
Acquired(pool, i, n) ==
    [pool EXCEPT ![i] =
        getPricesBuf(IF @.where = "none" THEN NewPricesBuf ELSE @, n)]

\* the pool after putPricesBuf of object i
Released(pool, i) == [pool EXCEPT ![i] = putPricesBuf(@)]

\* ---- inputs ---------------------------------------------------------------
\* scenario C: the timestamps of its four single-point Adds
ScenarioC == <<0, 1, 2, 5>>

\* the recorded history is as long as the longest scenario
MaxHist == Len(ScenarioC)

HistOff == <<-1>>

CommitsOff == <<>>

\* the history of completed Adds, extended by the window one more leaves
Committed(cs, win) == IF cs = CommitsOff THEN CommitsOff ELSE Append(cs, win)

EventsOver(tss, prices, volumes) ==
    {WindowPoint(t, p, v, sd) :
        t \in tss, p \in prices, v \in volumes, sd \in Side}

\* the events of the general specification: every side, two prices
Events == EventsOver(0 .. MaxTs, {1, 2}, {1})

\* the events of the volume specification: negative, zero and positive volume
VolEvents == EventsOver({0, 1, 2}, {1}, -1 .. MaxVolV)

\* the events of the scenarios: buys at one price, one per call
ScenEvents ==
    {WindowPoint(t, 1, v, SideBuy) : t \in 0 .. ScenMaxTs, v \in 1 .. 2}

\* capacities, durations and scale decimals given to the constructor
Capacities == {1, 2}
Durations == {1, 2}
Decimals == {1}
ScenCaps == {3}
ScenDurs == {2}

\* emaAlpha arguments; NewEMA clamps both to 1
EmaAlphas == {<<1, 1>>, <<2, 1>>}

wvars == <<w, pc, rem, threshold, mono, prevTs, lastOp, lastPt, hist, commits,
           pricesPool>>

\* what a reader never writes
wstate == <<w, pc, rem, threshold, mono, prevTs, lastOp, lastPt, hist, commits>>

vars == <<w, mu, pc, rem, threshold, mono, prevTs, lastOp, lastPt, hist,
          commits, rpc, r, pricesPool>>

InitOf(caps, durs, alphas, h, cm) ==
    /\ w \in {WithScales(NewSlidingWindow(d, c, a), pd, vd) :
                 d \in durs, c \in caps, a \in alphas,
                 pd \in Decimals, vd \in Decimals}
    /\ mu = [writer |-> FALSE, readers |-> 0]
    /\ pc = "idle"
    /\ rem = 0
    /\ threshold = 0
    /\ mono = TRUE
    /\ prevTs = 0
    /\ lastOp = "none"
    /\ lastPt = ZeroPoint
    /\ hist = h
    /\ commits = (IF cm THEN <<w>> ELSE CommitsOff)
    /\ rpc = "idle"
    /\ r = NoCall
    /\ pricesPool = [i \in 1 .. MaxBufs |-> NoBuf]

InitWith(caps, durs, h, cm) == InitOf(caps, durs, EmaAlphas, h, cm)

\* ---- Add (unnamed/part_000) ----------------------------------------------
\* Add() with no point: Lock ...
AddEmpty ==
    /\ pc = "idle"
    /\ ~mu.writer /\ mu.readers = 0
    /\ mu' = [mu EXCEPT !.writer = TRUE]
    /\ pc' = "empty"
    /\ UNCHANGED <<w, rem, threshold, mono, prevTs, lastOp, lastPt, hist,
                   commits, rpc, r, pricesPool>>

\* ... add returns at len(pts) == 0, Unlock
AddEmptyReturn ==
    /\ pc = "empty"
    /\ mu' = [mu EXCEPT !.writer = FALSE]
    /\ pc' = "idle"
    /\ w' = addNone(w)
    /\ commits' = Committed(commits, w')
    /\ UNCHANGED <<rem, threshold, mono, prevTs, lastOp, lastPt, hist,
                   rpc, r, pricesPool>>

\* Add(p1 .. pk), k >= 1: Lock, then the threshold from the last point
AddBegin(K, T) ==
    /\ pc = "idle"
    /\ ~mu.writer /\ mu.readers = 0
    /\ \E k \in K, lastTs \in T :
          /\ k >= 1
          /\ rem' = k
          /\ threshold' = lastTs - w.duration
    /\ mu' = [mu EXCEPT !.writer = TRUE]
    /\ pc' = "loop"
    /\ UNCHANGED <<w, mono, prevTs, lastOp, lastPt, hist, commits, rpc, r,
                   pricesPool>>

\* one turn of the loop of add; the last point carries lastTs
AddPoint(E) ==
    /\ pc = "loop"
    /\ rem > 0
    /\ \E pt \in E :
          /\ rem = 1 => pt.Ts = threshold + w.duration
          /\ w' = addPoint(w, pt, threshold)
          /\ lastOp' = addBranch(w, pt, threshold)
          /\ lastPt' = IF After(pt.Ts, threshold) THEN pt ELSE lastPt
          /\ mono' = (mono /\ pt.Ts >= prevTs)
          /\ prevTs' = IF mono' THEN pt.Ts ELSE 0
          /\ hist' = IF hist = HistOff \/ Len(hist) >= MaxHist
                     THEN HistOff ELSE Append(hist, pt.Ts)
    /\ rem' = rem - 1
    /\ UNCHANGED <<mu, pc, threshold, commits, rpc, r, pricesPool>>

\* trim, rescan of the extrema, refresh of the caches, Unlock
AddFinish ==
    /\ pc = "loop"
    /\ rem = 0
    /\ w' = addFinish(w, threshold)
    /\ mu' = [mu EXCEPT !.writer = FALSE]
    /\ pc' = "idle"
    /\ threshold' = 0
    /\ lastOp' = "none"
    /\ commits' = Committed(commits, w')
    /\ UNCHANGED <<rem, mono, prevTs, lastPt, hist, rpc, r, pricesPool>>

\* ---- readers (snapshot.go, vwap.go, common.go, equilibriumZone.go) -------
ReaderOps == {"Snapshot", "VolumeWeightedAveragePrice", "DeltaVolume", "Imbalance"}

Entry(op) ==
    CASE op = "Snapshot" -> "ld_hi"
      [] op = "VolumeWeightedAveragePrice" -> "size"
      [] op = "DeltaVolume" -> "dv_b"
      [] op = "RealizedVol" -> "rv_lock"
      [] OTHER -> "im_b"

OkOf(b) == IF b THEN "ok" ELSE "notok"

\* the values an unsynchronised read of a plain field can return: the field
\* now, or, while an Add is writing, the field as it was before that Add
\* the window as the last completed call left it
Before == commits[Len(commits)]

Racy(cur, old) == IF mu.writer /\ commits # CommitsOff THEN {cur, old} ELSE {cur}

\* a reader calls one of the public read operations
RCallOf(ops) ==
    /\ rpc \in {"idle", "done"}
    /\ \E op \in ops :
          /\ r' = [NoCall EXCEPT !.op = op]
          /\ rpc' = Entry(op)
    /\ UNCHANGED <<wvars, mu>>

RCall == RCallOf(ReaderOps)

\* snapshot.go:36-39, the four atomic loads
SnapLoadHighest ==
    /\ rpc = "ld_hi"
    /\ r' = [r EXCEPT !.hi = w.HighestPrice]
    /\ rpc' = "ld_lo"
    /\ UNCHANGED <<wvars, mu>>

SnapLoadLowest ==
    /\ rpc = "ld_lo"
    /\ r' = [r EXCEPT !.lo = w.LowestPrice]
    /\ rpc' = "ld_latest"
    /\ UNCHANGED <<wvars, mu>>

SnapLoadLatest ==
    /\ rpc = "ld_latest"
    /\ r' = [r EXCEPT !.latest = w.LatestPrice]
    /\ rpc' = "ld_ntrades"
    /\ UNCHANGED <<wvars, mu>>

SnapLoadTrades ==
    /\ rpc = "ld_ntrades"
    /\ r' = [r EXCEPT !.nTrades = w.nTrades]
    /\ rpc' = "size"
    /\ UNCHANGED <<wvars, mu>>

\* snapshot.go:42-44, vwap.go:6-8: n := w.size without the lock, then
\* getPricesBuf(n) gives a buffer of length n; putPricesBuf is deferred
ReadSize ==
    /\ rpc = "size"
    /\ \E n \in Racy(w.size, Before.size), i \in GetSlots(pricesPool) :
          /\ r' = [r EXCEPT !.n = n, !.pb = i, !.gets = @ + 1]
          /\ pricesPool' = Acquired(pricesPool, i, n)
    /\ rpc' = "cs_lock"
    /\ UNCHANGED <<wstate, mu>>

\* collectStats: RLock
CollectLock ==
    /\ rpc = "cs_lock"
    /\ ~mu.writer
    /\ mu' = [mu EXCEPT !.readers = @ + 1]
    /\ rpc' = "cs_body"
    /\ UNCHANGED <<wvars, r>>

\* collectStats: the pass over the ring and the deferred RUnlock; then
\* Snapshot returns nil when !ok, VolumeWeightedAveragePrice returns vwap;
\* a return runs the deferred putPricesBuf
CollectBody ==
    /\ rpc = "cs_body"
    /\ LET st == collectStats(w, r.n)
           vw == vwap(st)
           returns == ~(st.ok /\ r.op = "Snapshot")
       IN  /\ r' = [r EXCEPT
                      !.stats = st,
                      !.sizeSeen = w.size,
                      !.vwap = vw[1],
                      !.ret = IF ~st.ok
                              THEN (IF r.op = "Snapshot" THEN "nil" ELSE "notok")
                              ELSE IF r.op = "Snapshot" THEN @
                              ELSE IF vw[2] THEN "ok" ELSE "notok",
                      !.puts = IF returns THEN @ + 1 ELSE @]
           /\ pricesPool' = IF returns THEN Released(pricesPool, r.pb)
                            ELSE pricesPool
           /\ rpc' = IF returns THEN "done" ELSE "dv_b"
    /\ mu' = [mu EXCEPT !.readers = @ - 1]
    /\ UNCHANGED wstate

\* DeltaVolume: buyVol.Load()
DeltaLoadBuy ==
    /\ rpc = "dv_b"
    /\ r' = [r EXCEPT !.ldb = w.buyVol]
    /\ rpc' = "dv_s"
    /\ UNCHANGED <<wvars, mu>>

\* DeltaVolume: sellVol.Load() and the result
DeltaLoadSell ==
    /\ rpc = "dv_s"
    /\ r' = [r EXCEPT !.dv = DeltaVolume(r.ldb, w.sellVol, w.volumeScale),
                      !.ret = IF r.op = "Snapshot" THEN @ ELSE "ok"]
    /\ rpc' = IF r.op = "Snapshot" THEN "im_b" ELSE "done"
    /\ UNCHANGED <<wvars, mu>>

\* Imbalance: buyVol.Load()
ImbLoadBuy ==
    /\ rpc = "im_b"
    /\ r' = [r EXCEPT !.ldb = w.buyVol]
    /\ rpc' = "im_s"
    /\ UNCHANGED <<wvars, mu>>

\* Imbalance: sellVol.Load() and the result
ImbLoadSell ==
    /\ rpc = "im_s"
    /\ r' = [r EXCEPT !.imb = Imbalance(r.ldb, w.sellVol, w.volumeScale),
                      !.ret = IF r.op = "Snapshot" THEN @ ELSE "ok"]
    /\ rpc' = IF r.op = "Snapshot" THEN "rv_lock" ELSE "done"
    /\ UNCHANGED <<wvars, mu>>

\* RealizedVol: RLock
RvLock ==
    /\ rpc = "rv_lock"
    /\ ~mu.writer
    /\ mu' = [mu EXCEPT !.readers = @ + 1]
    /\ rpc' = "rv_body"
    /\ UNCHANGED <<wvars, r>>

\* RealizedVol: the pass over the ring that sums the squared log returns,
\* the square root and the deferred RUnlock; Snapshot takes 0 when !ok
RvBody ==
    /\ rpc = "rv_body"
    /\ LET v == RealizedVol(w)
       IN  r' = [r EXCEPT
                   !.rv = v[1],
                   !.sizeSeen = IF r.op = "Snapshot" THEN @ ELSE w.size,
                   !.ret = IF r.op = "Snapshot" THEN @ ELSE OkOf(v[2])]
    /\ mu' = [mu EXCEPT !.readers = @ - 1]
    /\ rpc' = IF r.op = "Snapshot" THEN "total" ELSE "done"
    /\ UNCHANGED wvars

\* snapshot.go:66: w.sumVolume.Float(w.volumeScale) without the lock
ReadTotal ==
    /\ rpc = "total"
    /\ \E sv \in Racy(w.sumVolume, Before.sumVolume) :
          r' = [r EXCEPT !.total = Float(sv, w.volumeScale)]
    /\ rpc' = "ld_bv"
    /\ UNCHANGED <<wvars, mu>>

\* snapshot.go:74
SnapLoadBuy ==
    /\ rpc = "ld_bv"
    /\ r' = [r EXCEPT !.bv = Rat(w.buyVol, w.volumeScale)]
    /\ rpc' = "ld_sv"
    /\ UNCHANGED <<wvars, mu>>

\* snapshot.go:75 and the return of the record, with the deferred
\* putPricesBuf
SnapLoadSell ==
    /\ rpc = "ld_sv"
    /\ r' = [r EXCEPT !.sv = Rat(w.sellVol, w.volumeScale), !.ret = "record",
                      !.puts = @ + 1]
    /\ pricesPool' = Released(pricesPool, r.pb)
    /\ rpc' = "done"
    /\ UNCHANGED <<wstate, mu>>

Reader ==
    \/ RCall
    \/ SnapLoadHighest
    \/ SnapLoadLowest
    \/ SnapLoadLatest
    \/ SnapLoadTrades
    \/ ReadSize
    \/ CollectLock
    \/ CollectBody
    \/ DeltaLoadBuy
    \/ DeltaLoadSell
    \/ ImbLoadBuy
    \/ ImbLoadSell
    \/ RvLock
    \/ RvBody
    \/ ReadTotal
    \/ SnapLoadBuy
    \/ SnapLoadSell

\* ---- analytics whose window accesses all sit in one read-locked section --

\* momentum.go Momentum
MomentumCall ==
    /\ rpc = "idle"
    /\ ~mu.writer
    /\ LET m == Momentum(w)
       IN  r' = [NoCall EXCEPT !.op = "Momentum", !.sizeSeen = w.size,
                               !.mom = <<m[1], m[2]>>, !.ret = OkOf(m[3])]
    /\ rpc' = "done"
    /\ UNCHANGED <<wvars, mu>>

\* a reader calls EquilibriumZone(alpha, beta)
EquilibriumZoneCall(A) ==
    /\ rpc = "idle"
    /\ \E a \in A :
          r' = [NoCall EXCEPT !.op = "EquilibriumZone", !.args = a]
    /\ rpc' = "ez_lock"
    /\ UNCHANGED <<wvars, mu>>

\* equilibriumZone.go:79-83: RLock; with fewer than 2 points RUnlock and
\* return, no buffer taken
EzLock ==
    /\ rpc = "ez_lock"
    /\ ~mu.writer
    /\ IF w.size < 2
       THEN /\ r' = [r EXCEPT !.sizeSeen = w.size, !.ret = "notok"]
            /\ rpc' = "done"
            /\ mu' = mu
       ELSE /\ r' = [r EXCEPT !.sizeSeen = w.size]
            /\ rpc' = "ez_fill"
            /\ mu' = [mu EXCEPT !.readers = @ + 1]
    /\ UNCHANGED wvars

\* equilibriumZone.go:85-114: getPricesBuf(n), the copy of the prices with
\* the sums and the extrema, RUnlock; the zone is a function of what was
\* copied, r.zone holds it from here on
EzFill ==
    /\ rpc = "ez_fill"
    /\ \E i \in GetSlots(pricesPool) :
          /\ r' = [r EXCEPT !.n = w.size, !.pb = i, !.gets = @ + 1,
                            !.zone = EquilibriumZone(w, r.args[1], r.args[2])]
          /\ pricesPool' = Acquired(pricesPool, i, w.size)
    /\ mu' = [mu EXCEPT !.readers = @ - 1]
    /\ rpc' = "ez_vwap"
    /\ UNCHANGED wstate

\* equilibriumZone.go:116-121: no volume: putPricesBuf and return
EzVwap ==
    /\ rpc = "ez_vwap"
    /\ IF r.zone.at = "volume"
       THEN /\ r' = [r EXCEPT !.ret = "notok", !.puts = @ + 1]
            /\ pricesPool' = Released(pricesPool, r.pb)
            /\ rpc' = "done"
       ELSE /\ r' = r
            /\ pricesPool' = pricesPool
            /\ rpc' = "ez_sort"
    /\ UNCHANGED <<wstate, mu>>

\* equilibriumZone.go:124-131: sort.Float64s(prices) and the median
EzSort ==
    /\ rpc = "ez_sort"
    /\ rpc' = "ez_band"
    /\ UNCHANGED <<wvars, mu, r>>

\* equilibriumZone.go:133-165: the band; each of the three returns calls
\* putPricesBuf first
EzBand ==
    /\ rpc = "ez_band"
    /\ r' = [r EXCEPT !.ret = OkOf(r.zone.ok), !.puts = @ + 1]
    /\ pricesPool' = Released(pricesPool, r.pb)
    /\ rpc' = "done"
    /\ UNCHANGED <<wstate, mu>>

\* medianPrice.go MedianPrice
MedianPriceCall ==
    /\ rpc = "idle"
    /\ ~mu.writer
    /\ LET m == MedianPrice(w)
       IN  r' = [NoCall EXCEPT !.op = "MedianPrice", !.sizeSeen = w.size,
                               !.val = m[1], !.ret = OkOf(m[2])]
    /\ rpc' = "done"
    /\ UNCHANGED <<wvars, mu>>

\* slidingWindow.go ScoreWithMomentum(currentMomentum, dirScale,
\* momentumScale, orderFlowConfidence)
ScoreWithMomentumCall(A) ==
    /\ rpc = "idle"
    /\ ~mu.writer
    /\ \E a \in A :
          LET sc == ScoreWithMomentum(w, a[1], a[2], a[3], a[4])
          IN  r' = [NoCall EXCEPT !.op = "ScoreWithMomentum",
                                  !.sizeSeen = w.size, !.args = a,
                                  !.val = sc[1],
                                  !.ret = IF sc[2] = "nil" THEN "ok" ELSE "error"]
    /\ rpc' = "done"
    /\ UNCHANGED <<wvars, mu>>

\* a reader calls AbsorptionDistribution(minVF, maxAbsRet, ., .)
AbsorptionDistributionCall(A) ==
    /\ rpc = "idle"
    /\ \E a \in A :
          r' = [NoCall EXCEPT !.op = "AbsorptionDistribution", !.args = a]
    /\ rpc' = "ad_lock"
    /\ UNCHANGED <<wvars, mu>>

\* unnamed/part_004:41-45: RLock; with fewer than 2 points RUnlock and
\* return, no buffer taken
AdLock ==
    /\ rpc = "ad_lock"
    /\ ~mu.writer
    /\ IF w.size < 2
       THEN /\ r' = [r EXCEPT !.sizeSeen = w.size, !.ret = "notok"]
            /\ rpc' = "done"
            /\ mu' = mu
       ELSE /\ r' = [r EXCEPT !.sizeSeen = w.size]
            /\ rpc' = "ad_fill"
            /\ mu' = [mu EXCEPT !.readers = @ + 1]
    /\ UNCHANGED wvars

\* unnamed/part_004:47-74: getPricesBuf(n) and volumeFactor; without a
\* volume factor RUnlock, putPricesBuf and return; else the copy of the
\* prices with the sums, and RUnlock; the signal is a function of what was
\* copied, r.sig holds it from here on
AdFill ==
    /\ rpc = "ad_fill"
    /\ \E i \in GetSlots(pricesPool) :
          LET sg == AbsorptionDistribution(w, r.args[1], r.args[2])
              held == Acquired(pricesPool, i, w.size)
          IN  IF sg.at = "vf"
              THEN /\ r' = [r EXCEPT !.n = w.size, !.pb = i, !.gets = @ + 1,
                                     !.puts = @ + 1, !.sig = sg,
                                     !.ret = "notok"]
                   /\ pricesPool' = Released(held, i)
                   /\ rpc' = "done"
              ELSE /\ r' = [r EXCEPT !.n = w.size, !.pb = i, !.gets = @ + 1,
                                     !.sig = sg]
                   /\ pricesPool' = held
                   /\ rpc' = "ad_check"
    /\ mu' = [mu EXCEPT !.readers = @ - 1]
    /\ UNCHANGED wstate

\* unnamed/part_004:77-91: putPricesBuf is deferred; the three returns
\* before the sort
AdCheck ==
    /\ rpc = "ad_check"
    /\ IF r.sig.at \in {"zero", "trend", "quiet"}
       THEN /\ r' = [r EXCEPT !.ret = "notok", !.puts = @ + 1]
            /\ pricesPool' = Released(pricesPool, r.pb)
            /\ rpc' = "done"
       ELSE /\ r' = r
            /\ pricesPool' = pricesPool
            /\ rpc' = "ad_sort"
    /\ UNCHANGED <<wstate, mu>>

\* unnamed/part_004:93-110: sort.Float64s(prices), the median, and the
\* return when the median is 0
AdSort ==
    /\ rpc = "ad_sort"
    /\ IF r.sig.at = "scale"
       THEN /\ r' = [r EXCEPT !.ret = "notok", !.puts = @ + 1]
            /\ pricesPool' = Released(pricesPool, r.pb)
            /\ rpc' = "done"
       ELSE /\ r' = r
            /\ pricesPool' = pricesPool
            /\ rpc' = "ad_score"
    /\ UNCHANGED <<wstate, mu>>

\* unnamed/part_004:112-141: the score, the kind and the return
AdScore ==
    /\ rpc = "ad_score"
    /\ r' = [r EXCEPT !.ret = "ok", !.puts = @ + 1]
    /\ pricesPool' = Released(pricesPool, r.pb)
    /\ rpc' = "done"
    /\ UNCHANGED <<wstate, mu>>

\* a caller converts x with d decimals and back
QtyCall(X, D) ==
    /\ rpc = "idle"
    /\ \E x \in X, d \in D :
          r' = [NoCall EXCEPT !.op = "NewQtyLoz", !.args = <<x, d>>]
    /\ rpc' = "qty_new"
    /\ UNCHANGED <<wvars, mu>>

\* qtyLoz.go:31-41 and 9-13
QtyNew ==
    /\ rpc = "qty_new"
    /\ r' = [r EXCEPT !.q = NewQtyLoz(r.args[1],
                                      NewQtyScaleFromDecimals(r.args[2]))]
    /\ rpc' = "qty_float"
    /\ UNCHANGED <<wvars, mu>>

\* qtyLoz.go:15-17
QtyFloat ==
    /\ rpc = "qty_float"
    /\ r' = [r EXCEPT !.val = Float(r.q, NewQtyScaleFromDecimals(r.args[2])),
                      !.ret = "ok"]
    /\ rpc' = "done"
    /\ UNCHANGED <<wvars, mu>>

\* the caller takes the result
RReturn ==
    /\ rpc = "done"
    /\ rpc' = "idle"
    /\ r' = NoCall
    /\ UNCHANGED <<wvars, mu>>

\* ---- acquire and release of a price buffer -------------------------------
\* the lengths asked for: around the first capacity and around the ceiling
BufSizes == {0, 1, 257, 65536, 65537}

\* getPricesBuf(n), n in N: Get hands out a pooled object, or a new one
GetBuf(N) ==
    /\ \E i \in 1 .. MaxBufs, n \in N :
          /\ pricesPool[i].where \in {"pool", "none"}
          /\ pricesPool' =
                [pricesPool EXCEPT ![i] =
                    getPricesBuf(IF @.where = "none" THEN NewPricesBuf ELSE @, n)]
    /\ UNCHANGED <<w, mu, pc, rem, threshold, mono, prevTs, lastOp, lastPt,
                   hist, commits, rpc, r>>

\* putPricesBuf(p) by the holder of a buffer other than the reader's
PutBuf ==
    /\ \E i \in 1 .. MaxBufs :
          /\ pricesPool[i].where = "held"
          /\ ~(i = r.pb /\ r.gets > r.puts)
          /\ pricesPool' = [pricesPool EXCEPT ![i] = putPricesBuf(@)]
    /\ UNCHANGED <<w, mu, pc, rem, threshold, mono, prevTs, lastOp, lastPt,
                   hist, commits, rpc, r>>

\* the collector empties the pool of one object
PoolDrop ==
    /\ \E i \in 1 .. MaxBufs :
          /\ pricesPool[i].where = "pool"
          /\ pricesPool' = [pricesPool EXCEPT ![i] = NoBuf]
    /\ UNCHANGED <<w, mu, pc, rem, threshold, mono, prevTs, lastOp, lastPt,
                   hist, commits, rpc, r>>

\* ---- the general specification: one writer, any events, batches ---------
Init == InitWith(Capacities, Durations, HistOff, FALSE)

Next ==
    \/ AddEmpty
    \/ AddEmptyReturn
    \/ AddBegin(1 .. MaxBatch, 0 .. MaxTs)
    \/ AddPoint(Events)
    \/ AddFinish

Spec == Init /\ [][Next]_vars

\* ---- the volume specification: one price, signed volumes ----------------
InitVol == InitWith(Capacities, ScenDurs, HistOff, FALSE)

NextVol ==
    \/ AddEmpty
    \/ AddEmptyReturn
    \/ AddBegin({1, 2}, {0, 1, 2})
    \/ AddPoint(VolEvents)
    \/ AddFinish

SpecVol == InitVol /\ [][NextVol]_vars

\* ---- the scenario specification: single-point calls, recorded ------------
InitScen == InitWith(ScenCaps, ScenDurs, <<>>, FALSE)

NextScen ==
    \/ AddBegin({1}, 0 .. ScenMaxTs)
    \/ AddPoint(ScenEvents)
    \/ AddFinish

SpecScen == InitScen /\ [][NextScen]_vars

\* ---- the concurrent specification: one writer, one reader ----------------
MaxCalls == 2      \* bound: Add calls of one run of the concurrent specification

\* a buy at price 1 and a sell at price 2, one tick each
ConcEvents == {WindowPoint(0, 1, 1, SideBuy), WindowPoint(0, 2, 1, SideSell)}

InitConc == InitWith({2}, {1}, HistOff, TRUE)

\* commits holds the initial window and one window per completed call
CallsLeft == Len(commits) <= MaxCalls

NextConc ==
    \/ (CallsLeft /\ AddEmpty)
    \/ AddEmptyReturn
    \/ (CallsLeft /\ AddBegin(1 .. MaxBatch, {0}))
    \/ AddPoint(ConcEvents)
    \/ AddFinish
    \/ Reader

SpecConc == InitConc /\ [][NextConc]_vars

\* ---- the sequential specification: one client that adds and reads --------
\* one timestamp, prices 0 .. 2, volumes 0 and 1
ReadEvents == {WindowPoint(0, p, v, SideBuy) : p \in 0 .. 2, v \in 0 .. 1}

ZoneArgs == {<<Rat(7, 10), b>> : b \in {RatZero, Rat(3, 20)}}

\* <<currentMomentum, dirScale, momentumScale, orderFlowConfidence>>
ScoreArgs ==
    {<<m, d, ms, c>> :
        m \in {Rat(-1, 1), RatZero, Rat(1, 2)},
        d \in {RatZero, Rat(1, 1000000), Rat(1, 500000), RatOne},
        ms \in {Rat(1, 1000000), RatOne},
        c \in {Rat(-2, 1), Rat(1, 2)}}

InitRead == InitWith({3}, {1}, HistOff, FALSE)

NextRead ==
    \/ (rpc = "idle" /\ AddEmpty)
    \/ AddEmptyReturn
    \/ (rpc = "idle" /\ AddBegin({1, 2}, {0}))
    \/ AddPoint(ReadEvents)
    \/ AddFinish
    \/ MomentumCall
    \/ (pc = "idle" /\ EquilibriumZoneCall(ZoneArgs))
    \/ EzLock
    \/ EzFill
    \/ EzVwap
    \/ EzSort
    \/ EzBand
    \/ MedianPriceCall
    \/ ScoreWithMomentumCall(ScoreArgs)
    \/ (pc = "idle" /\ rpc = "idle"
          /\ RCallOf({"VolumeWeightedAveragePrice", "RealizedVol"}))
    \/ ReadSize
    \/ CollectLock
    \/ CollectBody
    \/ RvLock
    \/ RvBody
    \/ RReturn

SpecRead == InitRead /\ [][NextRead]_vars

\* ---- the expiry specification: duration 0, so that a call can empty the
\* window; only a point ahead of the last one of its batch gets stored
ExpiryEvents == EventsOver({0, 1}, {1, 2}, {-1, 1})

InitExpiry == InitWith({2}, {0}, HistOff, FALSE)

NextExpiry ==
    \/ AddEmpty
    \/ AddEmptyReturn
    \/ AddBegin({1, 2}, {0, 1})
    \/ AddPoint(ExpiryEvents)
    \/ AddFinish

SpecExpiry == InitExpiry /\ [][NextExpiry]_vars

\* ---- scenario A: duration 60 s, capacity 5, one event per call -----------
\* prices 100 .. 104 and volume 1 at one decimal, the price 100 + t at second
\* t, supplied in any order; beside it a window of capacity 3 fed with the
\* events of the sequential specification
ScenAEvents == {WindowPoint(t, 1000 + 10 * t, 10, SideBuy) : t \in 0 .. 4}

IsScenA(win) == LenBuf(win) = 5

InitScenA ==
    \/ InitWith({5}, {60}, HistOff, FALSE)
    \/ InitWith({3}, {1}, HistOff, FALSE)

NextScenA ==
    \/ (rpc = "idle" /\ AddBegin({1}, IF IsScenA(w) THEN 0 .. 4 ELSE {0}))
    \/ AddPoint(IF IsScenA(w) THEN ScenAEvents ELSE ReadEvents)
    \/ AddFinish
    \/ MedianPriceCall
    \/ (pc = "idle" /\ rpc = "idle" /\
          RCallOf({"VolumeWeightedAveragePrice", "DeltaVolume", "Imbalance"}))
    \/ ReadSize
    \/ CollectLock
    \/ CollectBody
    \/ DeltaLoadBuy
    \/ DeltaLoadSell
    \/ ImbLoadBuy
    \/ ImbLoadSell
    \/ RReturn

SpecScenA == InitScenA /\ [][NextScenA]_vars

\* ---- the imbalance specification: Imbalance read while Add runs -----------
\* every side, negative and positive volumes
ImbEvents == EventsOver({0}, {1}, {-1, 1, 2})

InitImb == InitWith({2}, {1}, HistOff, FALSE)

NextImb ==
    \/ AddBegin({1, 2}, {0})
    \/ AddPoint(ImbEvents)
    \/ AddFinish
    \/ RCallOf({"Imbalance"})
    \/ ImbLoadBuy
    \/ ImbLoadSell

SpecImb == InitImb /\ [][NextImb]_vars

\* ---- the pool specification ------------------------------------------------
InitPool == InitWith({1}, {1}, HistOff, FALSE)

NextPool ==
    \/ GetBuf(BufSizes)
    \/ PutBuf
    \/ PoolDrop

SpecPool == InitPool /\ [][NextPool]_vars

\* ---- the buffer specification: one client that adds and reads, and other
\* holders of buffers that grow them past the ceiling of the pool
HoldEvents == {WindowPoint(0, p, v, SideBuy) : p \in {-1, 0, 1}, v \in 0 .. 1}

\* <<minVF, maxAbsRet>>
SignalArgs == {<<Rat(1, 2), Rat(2, 1)>>, <<Rat(2, 1), RatOne>>}

InitHold == InitWith({2}, {1}, HistOff, FALSE)

NextHold ==
    \/ (rpc = "idle" /\ AddBegin({1}, {0}))
    \/ AddPoint(HoldEvents)
    \/ AddFinish
    \/ (pc = "idle" /\ rpc = "idle"
          /\ RCallOf({"VolumeWeightedAveragePrice", "Snapshot", "RealizedVol"}))
    \/ SnapLoadHighest
    \/ SnapLoadLowest
    \/ SnapLoadLatest
    \/ SnapLoadTrades
    \/ ReadSize
    \/ CollectLock
    \/ CollectBody
    \/ DeltaLoadBuy
    \/ DeltaLoadSell
    \/ ImbLoadBuy
    \/ ImbLoadSell
    \/ RvLock
    \/ RvBody
    \/ ReadTotal
    \/ SnapLoadBuy
    \/ SnapLoadSell
    \/ (pc = "idle" /\ EquilibriumZoneCall({<<Rat(7, 10), RatZero>>}))
    \/ EzLock
    \/ EzFill
    \/ EzVwap
    \/ EzSort
    \/ EzBand
    \/ (pc = "idle" /\ AbsorptionDistributionCall(SignalArgs))
    \/ AdLock
    \/ AdFill
    \/ AdCheck
    \/ AdSort
    \/ AdScore
    \/ RReturn
    \/ GetBuf({65537})
    \/ PutBuf
    \/ PoolDrop

SpecHold == InitHold /\ [][NextHold]_vars

\* ---- the fixed-point specification: values to and from ticks -------------
MaxQty == 25       \* bound: numerators of the values converted
MaxDecimals == 3   \* bound: decimals of the scales

\* integers, thirds, and halves of the last decimal of each scale
QtyValues ==
    {Rat(a, b) : a \in (-MaxQty) .. MaxQty, b \in {1, 3, 20, 200, 2000}}

InitQty == InitWith({1}, {1}, HistOff, FALSE)

NextQty ==
    \/ QtyCall(QtyValues, 0 .. MaxDecimals)
    \/ QtyNew
    \/ QtyFloat
    \/ RReturn

SpecQty == InitQty /\ [][NextQty]_vars

\* ---- the queue specification: buys at two prices, batches ---------------
FifoEvents ==
    {WindowPoint(t, p, 1, sd) :
        t \in 0 .. MaxTs, p \in {1, 2}, sd \in {SideBuy}}

InitFifo == InitWith({2, 3}, {1, 2}, HistOff, FALSE)

NextFifo ==
    \/ AddBegin(1 .. MaxBatch, 0 .. MaxTs)
    \/ AddPoint(FifoEvents)
    \/ AddFinish

SpecFifo == InitFifo /\ [][NextFifo]_vars

\* ---- the baseline under any smoothing factor ----------------------------
\* emaAlpha arguments of NewSlidingWindow: below zero, zero, inside (0, 1),
\* one, above one, and a float64 that is not a number
EmaInputs == {Rat(-1, 1), RatZero, Rat(1, 2), RatOne, Rat(2, 1), NaN}

\* volumes in ticks at scale 10: -1.0, 0, 1.0 and 2.0
EmaEvents ==
    {WindowPoint(t, 1, v, SideBuy) : t \in {0, 1}, v \in {-10, 0, 10, 20}}

MaxObs == 3        \* bound: Add calls of one run, one event each

InitEma == InitOf({2}, {2}, EmaInputs, HistOff, TRUE)

NextEma ==
    \/ (Len(commits) <= MaxObs /\ AddBegin({1}, {0, 1}))
    \/ AddPoint(EmaEvents)
    \/ AddFinish

SpecEma == InitEma /\ [][NextEma]_vars

\* ---- sums at the edge of int64 ------------------------------------------
\* prices and volumes in ticks, up to the largest int64
WrapEvents ==
    {WindowPoint(t, p, v, SideBuy) :
        t \in {0, 2}, p \in {2, MaxInt64}, v \in {-1, 1, MaxInt64}}

\* the Add calls of one run, counted from the window Add starts on
WrapCalls == {1, 2}

InitWrap == InitWith({2}, {1}, HistOff, TRUE)

NextWrap ==
    \/ (Len(commits) \in WrapCalls /\ AddBegin({1, 2}, {0, 2}))
    \/ AddPoint(WrapEvents)
    \/ AddFinish

SpecWrap == InitWrap /\ [][NextWrap]_vars

\* ---- brute-force recomputation over the ring ------------------------------
RECURSIVE SumVolumeOf(_, _)
SumVolumeOf(s, sides) ==
    IF s = <<>> THEN 0
    ELSE (IF s[1].Side \in sides THEN s[1].Volume ELSE 0)
         + SumVolumeOf(Tail(s), sides)

RingTs(win) == [i \in 1 .. win.size |-> Ring(win)[i].Ts]

\* ---- claims --------------------------------------------------------------

\* C1: for a capacity >= 1, in every reachable state (between and inside Add
\* calls, single or batch) 0 <= size <= capacity and 0 <= start < capacity.
C1_RingBounds ==
    /\ 0 <= w.size /\ w.size <= LenBuf(w)
    /\ 0 <= w.start /\ w.start < LenBuf(w)

\* a full ring whose start has wrapped past slot 0, after a completed Add
C1_Witness ==
    pc = "idle" /\ w.size = LenBuf(w) /\ LenBuf(w) > 1 /\ w.start = LenBuf(w) - 1

\* C2: with non-decreasing timestamps and duration > 0, after an Add call
\* every retained event's Ts is strictly greater than the Ts of the call's
\* last event minus the duration.
C2_TimeEviction ==
    (pc = "idle" /\ mono /\ w.duration > 0) =>
        \A i \in 1 .. w.size : Ring(w)[i].Ts > prevTs - w.duration

\* an Add with monotone input has trimmed the head and kept a younger event
C2_Witness ==
    /\ pc = "idle" /\ mono /\ w.duration > 0
    /\ w.size = 1 /\ w.start = 1 /\ LenBuf(w) = 2
    /\ w.buf[0].Ts <= prevTs - w.duration
    /\ w.nTrades = 1

\* C3: after Add calls complete, with non-negative retained volumes, the
\* sum volume, trade count, buy volume and sell volume equal a brute-force
\* recomputation over the events in the ring.
C3_AggregateFidelity ==
    (pc = "idle" /\ \A i \in 1 .. w.size : Ring(w)[i].Volume >= 0) =>
        /\ w.sumVolume = SumVolumeOf(Ring(w), Side)
        /\ w.nTrades = w.size
        /\ w.buyVol = SumVolumeOf(Ring(w), {SideBuy})
        /\ w.sellVol = SumVolumeOf(Ring(w), {SideSell})

\* a buy and a sell are retained after a buy was evicted from a full ring
C3_Witness ==
    /\ pc = "idle" /\ w.size = 2 /\ w.start = 1
    /\ w.buf[1].Side = SideSell /\ w.buf[0].Side = SideBuy
    /\ w.buyVol = 1 /\ w.sellVol = 1 /\ w.sumVolume = 2

\* C4: after Add calls complete leaving a non-empty window, HighestPrice is
\* the maximum and LowestPrice the minimum price over the retained events,
\* whatever their sides.
C4_Extrema ==
    (pc = "idle" /\ w.size > 0) =>
        /\ w.HighestPrice = MaxPriceOf(Ring(w))
        /\ w.LowestPrice = MinPriceOf(Ring(w))

\* C5: at size == capacity, folding in one accepted event removes exactly the
\* oldest event and makes the new event the newest, size staying at capacity
\* before the trim; with capacity 3 and 4 in-window events only events 2-4
\* remain and the sum volume is their sum.
C5_Overwrite ==
    (pc = "loop" /\ rem' = rem - 1 /\ w.size = LenBuf(w)
        /\ lastOp' # "skip") =>
        /\ w'.size = LenBuf(w)
        /\ Ring(w') = Append(Tail(Ring(w)), lastPt')
        /\ w'.sumVolume = w.sumVolume - Head(Ring(w)).Volume + lastPt'.Volume

C5_ScenarioB ==
    (/\ pc = "idle" /\ hist # HistOff /\ Len(hist) = 4 /\ LenBuf(w) = 3
     /\ \A i \in 1 .. 4 : hist[i] > hist[4] - w.duration
     /\ \A i \in 1 .. 3 : hist[i] <= hist[i + 1]) =>
        /\ w.size = 3
        /\ RingTs(w) = SubSeq(hist, 2, 4)
        /\ w.sumVolume = SumVolumeOf(Ring(w), Side)
        /\ w.start = 1

C5_CapacityEviction == [][C5_Overwrite]_vars /\ []C5_ScenarioB

\* four in-window events went into a window of capacity 3
C5_Witness ==
    /\ pc = "idle" /\ hist # HistOff /\ Len(hist) = 4 /\ LenBuf(w) = 3
    /\ \A i \in 1 .. 4 : hist[i] > hist[4] - w.duration
    /\ \A i \in 1 .. 3 : hist[i] <= hist[i + 1]
    /\ w.size = 3 /\ w.start = 1

\* C6 as stated: duration 2, single Adds at t = 0, 1, 2, 5: the Add of t = 5
\* uses threshold 3 and the window then holds exactly t = 2 and t = 5.
C6_Original ==
    (pc = "idle" /\ w.duration = 2 /\ hist = ScenarioC) =>
        RingTs(w) = <<2, 5>>

\* C6 amended: duration 2, single Adds at t = 0, 1, 2, 5: the Add of t = 2
\* (threshold 0) evicts t = 0; the Add of t = 5 uses threshold 3 and evicts
\* t = 1 and t = 2; the window then holds exactly t = 5.
C6_ScenarioC ==
    /\ (pc = "idle" /\ w.duration = 2 /\ hist = SubSeq(ScenarioC, 1, 3)) =>
           RingTs(w) = <<1, 2>>
    /\ (pc = "loop" /\ rem = 0 /\ w.duration = 2 /\ hist = ScenarioC) =>
           (threshold = 3 /\ RingTs(w) = <<1, 2, 5>>)
    /\ (pc = "idle" /\ w.duration = 2 /\ hist = ScenarioC) =>
           RingTs(w) = <<5>>

\* the four Adds of the scenario have completed
C6_Witness ==
    pc = "idle" /\ w.duration = 2 /\ hist = ScenarioC /\ w.size = 1

\* ---- the read side against the completed calls ---------------------------
\* some completed call left a window for which P holds
SomeCommit(P(_)) == \E i \in 1 .. Len(commits) : P(commits[i])

DeltaOf(win) == DeltaVolume(win.buyVol, win.sellVol, win.volumeScale)
ImbalanceOf(win) == Imbalance(win.buyVol, win.sellVol, win.volumeScale)
VwapOf(win) == vwap(collectStats(win, win.size))

\* C7: every value a read operation returns equals the value of the window
\* after some whole number of completed Add calls: the result of DeltaVolume,
\* of Imbalance, of VolumeWeightedAveragePrice, and each scalar Snapshot
\* loaded; judged once the writer is idle, so that a call still in flight
\* when the read returned counts as completed.
C7_NoTornRead ==
    (pc = "idle" /\ rpc = "done") =>
        /\ (r.op = "DeltaVolume" =>
               SomeCommit(LAMBDA c : r.dv = DeltaOf(c)))
        /\ (r.op = "Imbalance" =>
               SomeCommit(LAMBDA c : r.imb = ImbalanceOf(c)))
        /\ (r.op = "VolumeWeightedAveragePrice" =>
               SomeCommit(LAMBDA c : /\ r.vwap = VwapOf(c)[1]
                                     /\ (r.ret = "ok") = VwapOf(c)[2]))
        /\ (r.op = "Snapshot" =>
               /\ SomeCommit(LAMBDA c : r.hi = c.HighestPrice)
               /\ SomeCommit(LAMBDA c : r.lo = c.LowestPrice)
               /\ SomeCommit(LAMBDA c : r.latest = c.LatestPrice)
               /\ SomeCommit(LAMBDA c : r.nTrades = c.nTrades))

\* C8: no read of size or of the sum volume by a public operation is about
\* to run while an Add holds the write lock.
C8_ReadsUnderLock ==
    rpc \in {"size", "total"} => ~mu.writer

\* C9: the fields of a record Snapshot returned all come from one window
\* state, that of some completed Add call (judged once the writer is idle);
\* in particular DeltaVolume = BuyVolume - SellVolume.
C9_OneState ==
    (pc = "idle" /\ rpc = "done" /\ r.ret = "record") =>
        /\ r.dv = RatSub(r.bv, r.sv)
        /\ SomeCommit(LAMBDA c :
              /\ r.vwap = VwapOf(c)[1]
              /\ r.dv = DeltaOf(c)
              /\ r.imb = ImbalanceOf(c)
              /\ r.rv = RealizedVol(c)[1]
              /\ r.total = Float(c.sumVolume, c.volumeScale)
              /\ r.bv = Float(c.buyVol, c.volumeScale)
              /\ r.sv = Float(c.sellVol, c.volumeScale))

\* C10: a Snapshot whose pass over the window found fewer than 2 points
\* returns a record.
C10_DegenerateRecord ==
    (rpc = "done" /\ r.op = "Snapshot" /\ r.sizeSeen < 2) => r.ret = "record"

\* ---- the analytics of the sequential client ------------------------------
\* C11: with fewer than 2 points in the window, Momentum, RealizedVol and
\* EquilibriumZone each return ok = false.
C11_FewPoints ==
    (rpc = "done" /\ r.op \in {"Momentum", "RealizedVol", "EquilibriumZone"}
       /\ r.sizeSeen < 2) => r.ret = "notok"

\* the part of C11 that holds: RealizedVol and EquilibriumZone
C11_LockedPair ==
    (rpc = "done" /\ r.op \in {"RealizedVol", "EquilibriumZone"}
       /\ r.sizeSeen < 2) => r.ret = "notok"

C12_State ==
    (rpc = "done" /\ r.op = "Momentum" /\ ~w.ema.Initialized) =>
        r.ret = "notok"

C12_Step ==
    /\ w.ema.Initialized => w'.ema.Initialized
    /\ (pc = "loop" /\ rem' = rem - 1 /\ lastOp' # "skip"
          /\ lastPt'.Volume > 0) => w'.ema.Initialized
    /\ (~w.ema.Initialized /\ w'.ema.Initialized) =>
          (pc = "loop" /\ rem' = rem - 1 /\ lastOp' # "skip"
             /\ lastPt'.Volume > 0)

\* C12: the EMA baseline is initialized exactly from the first fold-in of an
\* event with volume > 0 on, and while it is not initialized Momentum returns
\* ok = false for every window size.
C12_NoBaseline == []C12_State /\ [][C12_Step]_vars

\* Momentum was called on 2 or more points with a usable structural return
\* and no baseline
C12_Witness ==
    /\ rpc = "done" /\ r.op = "Momentum"
    /\ ~w.ema.Initialized
    /\ w.size >= 2
    /\ structuralReturn(w)[2]

\* C13: no step of an Add called with zero events changes any field of the
\* window.
C13_EmptyBatch == [][(pc = "empty" \/ pc' = "empty") => w' = w]_vars

\* an Add with zero events runs on a full window of 2 points with a baseline
\* and a latest price
C13_Witness ==
    /\ pc = "empty"
    /\ w.size = LenBuf(w) /\ w.size = 2
    /\ w.ema.Initialized
    /\ w.LatestPrice # 0

C17_State ==
    (rpc = "done" /\ r.op = "ScoreWithMomentum") =>
        /\ r.ret \in {"ok", "error"}
        /\ (r.ret = "error") <=>
              \/ RatLE(r.args[2], Rat(1, 1000000))
              \/ RatLE(r.args[3], Rat(1, 1000000))
              \/ r.sizeSeen < 2

C17_Step ==
    (rpc = "idle" /\ rpc' = "done" /\ r'.op = "ScoreWithMomentum") =>
        (w' = w /\ mu' = mu)

\* C17: ScoreWithMomentum returns an error exactly when dirScale <= 1e-6 or
\* momentumScale <= 1e-6 or the window holds fewer than 2 points, never the
\* ok = false outcome, and the call leaves the window as it was.
C17_ScoreError == []C17_State /\ [][C17_Step]_vars

\* the three causes of the error, each alone, and a call without error
C17_Witness ==
    /\ rpc = "done" /\ r.op = "ScoreWithMomentum"
    /\ r.ret = "error"
    /\ r.sizeSeen >= 2
    /\ r.args[2] = Rat(1, 1000000)
    /\ r.args[3] = RatOne

\* C14: whenever an Add call has completed and left the window empty, latest,
\* highest and lowest price are 0, the dirty flag is false, and sum volume,
\* trade count, buy volume, sell volume and both cached volume rates are 0.
C14_EmptyReset ==
    (pc = "idle" /\ w.size = 0) =>
        /\ w.LatestPrice = 0 /\ w.HighestPrice = 0 /\ w.LowestPrice = 0
        /\ ~w.hiLoDirty
        /\ w.sumVolume = 0 /\ w.nTrades = 0
        /\ w.buyVol = 0 /\ w.sellVol = 0
        /\ w.avgVolPerPoint = 0 /\ w.volPerSecond = 0

\* a call has emptied a window that had stored a buy or a sell
C14_Witness ==
    /\ pc = "idle" /\ w.size = 0
    /\ lastPt # ZeroPoint /\ lastPt.Side # SideUnknown
    /\ w.ema.Initialized

\* ---- fold-in and fold-out, step by step ----------------------------------
Max0(v) == IF v < 0 THEN 0 ELSE v
BuyPart(pt) == IF pt.Side = SideBuy THEN Max0(pt.Volume) ELSE 0
SellPart(pt) == IF pt.Side = SideSell THEN Max0(pt.Volume) ELSE 0
PVPart(pt) == pt.Price * Max0(pt.Volume)

RECURSIVE SumRaw(_)
SumRaw(s) == IF s = <<>> THEN 0 ELSE s[1].Volume + SumRaw(Tail(s))

RECURSIVE SumPVPart(_)
SumPVPart(s) == IF s = <<>> THEN 0 ELSE PVPart(s[1]) + SumPVPart(Tail(s))

\* this step is one turn of the loop of add
LoopTurn == pc = "loop" /\ rem' = rem - 1

\* this step is the end of an add: trim, rescan, refresh
TrimStep == pc = "loop" /\ pc' = "idle"

\* the points the trim of this step removes
Evicted == SubSeq(Ring(w), 1, w.size - w'.size)

C15_Step ==
    LET new == lastPt'
        old == w.buf[w.start]
    IN  /\ (LoopTurn /\ lastOp' \in {"seat", "append"}
              /\ new.Side = SideUnknown) =>
               /\ w'.nTrades = w.nTrades + 1
               /\ w'.sumVolume = w.sumVolume + new.Volume
               /\ w'.SumV = w.SumV + Max0(new.Volume)
               /\ w'.SumPV = w.SumPV + PVPart(new)
               /\ w'.buyVol = w.buyVol /\ w'.sellVol = w.sellVol
        /\ (LoopTurn /\ lastOp' = "overwrite" /\ old.Side = SideUnknown) =>
               /\ w'.nTrades = w.nTrades
               /\ w'.sumVolume = w.sumVolume - old.Volume + new.Volume
               /\ w'.SumPV = w.SumPV - PVPart(old) + PVPart(new)
               /\ w'.buyVol = w.buyVol + BuyPart(new)
               /\ w'.sellVol = w.sellVol + SellPart(new)
        /\ (LoopTurn /\ lastOp' = "overwrite" /\ new.Side = SideUnknown) =>
               /\ w'.nTrades = w.nTrades
               /\ w'.sumVolume = w.sumVolume - old.Volume + new.Volume
               /\ w'.SumPV = w.SumPV - PVPart(old) + PVPart(new)
               /\ w'.buyVol = w.buyVol - BuyPart(old)
               /\ w'.sellVol = w.sellVol - SellPart(old)
        /\ (TrimStep /\ \A i \in 1 .. Len(Evicted) :
                            Evicted[i].Side = SideUnknown) =>
               /\ w'.nTrades = w.nTrades - Len(Evicted)
               /\ w'.sumVolume = w.sumVolume - SumRaw(Evicted)
               /\ w'.SumPV = w.SumPV - SumPVPart(Evicted)
               /\ w'.buyVol = w.buyVol /\ w'.sellVol = w.sellVol

\* C15: folding an event of side Unknown in or out moves the trade count by
\* one, the sum volume by its volume and the sums of volume and of price x
\* volume by its volume taken as 0 when negative, and leaves buy volume and
\* sell volume as they were.
C15_UnknownSide == [][C15_Step]_vars

\* an Unknown event of positive volume has replaced an Unknown event in a
\* window that holds buy volume
C15_Witness ==
    /\ lastOp = "overwrite"
    /\ lastPt.Side = SideUnknown /\ lastPt.Volume > 0
    /\ w.buyVol > 0
    /\ w.nTrades = w.size

C16_Step ==
    /\ w'.ema # w.ema =>
          (LoopTurn /\ lastOp' # "skip" /\ lastPt'.Volume > 0)
    /\ (LoopTurn /\ lastOp' \in {"seat", "append"} /\ lastPt'.Volume <= 0) =>
          (w'.ema = w.ema /\ w'.nTrades = w.nTrades + 1)
    /\ (LoopTurn /\ lastOp' = "overwrite" /\ lastPt'.Volume <= 0) =>
          (w'.ema = w.ema /\ w'.nTrades = w.nTrades)
    /\ TrimStep => w'.ema = w.ema

\* C16: the EMA baseline changes only in a step that folds in an event with
\* volume > 0; an eviction by capacity or by time leaves it, and so does the
\* fold-in of an event with volume <= 0, which still counts as a trade.
C16_EmaFrame == [][C16_Step]_vars

\* the events that set the baseline have all been evicted, the last of them
\* by an event of volume <= 0, and the baseline is still there
C16_Witness ==
    /\ lastOp = "overwrite" /\ lastPt.Volume <= 0
    /\ w.ema.Initialized
    /\ \A i \in 1 .. w.size : Ring(w)[i].Volume <= 0

\* ---- VWAP and median against a direct recomputation -----------------------
\* sum of price x volume and of volume, in ticks, slot by slot
RECURSIVE DirectPV(_, _)
DirectPV(win, i) ==
    IF i >= win.size THEN 0
    ELSE LET pt == win.buf[(win.start + i) % LenBuf(win)]
         IN  pt.Price * pt.Volume + DirectPV(win, i + 1)

RECURSIVE DirectV(_, _)
DirectV(win, i) ==
    IF i >= win.size THEN 0
    ELSE win.buf[(win.start + i) % LenBuf(win)].Volume + DirectV(win, i + 1)

DirectVwap(win) == Rat(DirectPV(win, 0), DirectV(win, 0) * win.priceScale)

\* the k-th smallest retained price, by counting
RankPrice(win, k) ==
    LET idx == 1 .. win.size
        px(i) == Ring(win)[i].Price
    IN  CHOOSE x \in {px(i) : i \in idx} :
           /\ Cardinality({i \in idx : px(i) < x}) < k
           /\ k <= Cardinality({i \in idx : px(i) <= x})

DirectMedian(win) ==
    LET n == win.size
    IN  IF n % 2 = 1 THEN Rat(RankPrice(win, (n + 1) \div 2), win.priceScale)
        ELSE Rat(RankPrice(win, n \div 2) + RankPrice(win, n \div 2 + 1),
                 2 * win.priceScale)

\* the window of scenario A: 5 buys, 1 s apart, prices 100 .. 104, volume 1
RingIsA(win) ==
    /\ win.size = 5
    /\ \A i \in 1 .. 5 :
          Ring(win)[i] = WindowPoint(i - 1, 1000 + 10 * (i - 1), 10, SideBuy)

\* C18: on a window of 2 or more events with positive total volume,
\* VolumeWeightedAveragePrice returns sum(price x volume) / sum(volume) and
\* MedianPrice the middle sorted price, or the mean of the two middle ones,
\* of the retained events; on the window of scenario A both are 102, delta
\* volume is 5 and imbalance is 1.
C18_VwapMedian ==
    (rpc = "done" /\ w.size >= 2) =>
        /\ (r.op = "VolumeWeightedAveragePrice" /\ DirectV(w, 0) > 0) =>
               (r.ret = "ok" /\ r.vwap = DirectVwap(w))
        /\ r.op = "MedianPrice" =>
               (r.ret = "ok" /\ r.val = DirectMedian(w))
        /\ RingIsA(w) =>
               /\ r.op = "VolumeWeightedAveragePrice" => r.vwap = Rat(102, 1)
               /\ r.op = "MedianPrice" => r.val = Rat(102, 1)
               /\ r.op = "DeltaVolume" => r.dv = Rat(5, 1)
               /\ r.op = "Imbalance" => r.imb = RatOne

\* MedianPrice has returned on the window of scenario A
C18_Witness ==
    /\ rpc = "done" /\ r.op = "MedianPrice" /\ r.ret = "ok"
    /\ RingIsA(w)

\* VolumeWeightedAveragePrice has returned on events of unequal prices, one
\* of them with volume 0
C18_WitnessWeighted ==
    /\ rpc = "done" /\ r.op = "VolumeWeightedAveragePrice" /\ r.ret = "ok"
    /\ w.size = 3
    /\ Ring(w)[1].Volume = 0 /\ Ring(w)[1].Price = 2
    /\ Ring(w)[2].Price = 1 /\ Ring(w)[3].Price = 0

FirstDoubling(c, m, n) ==
    /\ c >= n
    /\ \E k \in 0 .. 10 :
          /\ c = m * (2 ^ k)
          /\ (k = 0 \/ m * (2 ^ (k - 1)) < n)

C20_State ==
    \A i \in 1 .. MaxBufs :
        pricesPool[i].where = "held" =>
            /\ pricesPool[i].len = pricesPool[i].req
            /\ pricesPool[i].cap >= pricesPool[i].req

C20_Step ==
    \A i \in 1 .. MaxBufs :
        LET b == pricesPool[i]
            c == pricesPool'[i]
            old == IF b.where = "none" THEN NewPricesBuf ELSE b
        IN  /\ (b.where # "none" /\ c.where # "none") => c.cap >= b.cap
            /\ (b.where # "held" /\ c.where = "held" /\ old.cap < c.req) =>
                  FirstDoubling(c.cap,
                                IF old.cap > MinCap THEN old.cap ELSE MinCap,
                                c.req)
            /\ (b.where # "held" /\ c.where = "held" /\ old.cap >= c.req) =>
                  c.cap = old.cap

\* C20: getPricesBuf(n) returns a buffer of length exactly n and capacity
\* >= n; a buffer too small gets the capacity max(256, old capacity) doubled
\* until >= n, one large enough keeps its capacity, and no buffer object
\* ever loses capacity over acquires and releases.
C20_PricesBuf == []C20_State /\ [][C20_Step]_vars

\* a buffer that went through the pool was grown to hold 65536 prices and is
\* held with 257
C20_Witness ==
    \E i \in 1 .. MaxBufs :
        /\ pricesPool[i].where = "held"
        /\ pricesPool[i].cap = 65536
        /\ pricesPool[i].req = 257

\* ---- the buffer of a call -------------------------------------------------
\* the calls that take a buffer
BufOps == {"VolumeWeightedAveragePrice", "Snapshot", "EquilibriumZone",
           "AbsorptionDistribution"}

\* the positions whose step reads or writes the prices of the buffer
BufUse == {"cs_body", "ez_sort", "ad_sort"}

C21_State ==
    /\ r.puts <= r.gets /\ r.gets <= 1
    /\ rpc \in BufUse => (r.gets = 1 /\ r.puts = 0)
    /\ r.gets > r.puts =>
          /\ pricesPool[r.pb].where = "held"
          /\ pricesPool[r.pb].len = r.n
    /\ (rpc = "done" /\ r.op \in BufOps) => r.puts = r.gets

C21_Step ==
    \A i \in 1 .. MaxBufs :
        (pricesPool[i].where = "held" /\ pricesPool'[i].where # "held") =>
            IF pricesPool[i].cap <= 65536
            THEN /\ pricesPool'[i].where = "pool"
                 /\ pricesPool'[i].cap = pricesPool[i].cap
            ELSE pricesPool'[i].where = "none"

\* C21: a call of VolumeWeightedAveragePrice, Snapshot, EquilibriumZone or
\* AbsorptionDistribution that took a buffer has released it exactly once
\* when it returns, whatever the return; it holds the buffer, unreleased, at
\* every step that reads or writes the prices; and putPricesBuf puts a buffer
\* back into the pool if and only if its capacity is <= 65536.
C21_BufferOnce == []C21_State /\ [][C21_Step]_vars

\* AbsorptionDistribution returned a signal after it took from the pool a
\* buffer another holder had grown past 65536, and its release dropped it
C21_Witness ==
    /\ rpc = "done"
    /\ r.op = "AbsorptionDistribution"
    /\ r.ret = "ok"
    /\ r.gets = 1 /\ r.puts = 1
    /\ pricesPool[r.pb].where = "none"
    /\ \A i \in 1 .. MaxBufs : pricesPool[i].where # "pool"

\* each return of the four calls is taken
C21_WitnessReturns ==
    /\ rpc = "done"
    /\ r.op = "EquilibriumZone"
    /\ r.zone.at = "band"
    /\ r.puts = 1

\* ---- the lock of a call ---------------------------------------------------
\* the positions whose step sorts or reduces: the sort and the band of
\* EquilibriumZone, the sort and the score of AbsorptionDistribution
ReducePos == {"ez_sort", "ez_band", "ad_sort", "ad_score"}

\* the next step of the reader sorts or reduces: one of the above, or the
\* pass of RealizedVol over a window whose log returns it sums and roots
Reduces ==
    \/ rpc \in ReducePos
    \/ (rpc = "rv_body" /\ RealizedVol(w)[2])

\* C22: a derived analytic holds the shared lock only while it copies; at
\* every step that sorts or reduces, the reader has released the lock.
C22_LockOnlyCopies == Reduces => mu.readers = 0

\* ---- fixed point ----------------------------------------------------------
\* the scale of a finished conversion
QtyScaleOf(c) == NewQtyScaleFromDecimals(c.args[2])

C23_WitnessExact ==
    /\ rpc = "done"
    /\ r.op = "NewQtyLoz"
    /\ r.args = <<Rat(-3, 200), 3>>
    /\ r.val = Rat(-3, 200)

\* ---- realized volatility --------------------------------------------------
\* C24: when RealizedVol returns ok, every log return it squares is taken on
\* a positive base (the last positive price carried forward), so that the
\* result is finite; with fewer than 2 points it returns ok = false.
C24_FiniteVol ==
    (rpc = "done" /\ r.op = "RealizedVol") =>
        /\ r.sizeSeen < 2 => r.ret = "notok"
        /\ r.ret = "ok" =>
              \A k \in 1 .. Len(r.rv) :
                  /\ RatLT(RatZero, r.rv[k][1])
                  /\ RatLT(RatZero, r.rv[k][2])

\* ---- the latest price and the dirty flag ----------------------------------
\* C25: after an Add call has completed and left the window non-empty,
\* LatestPrice is the price of the newest retained event, whatever its side.
C25_LatestPrice ==
    (pc = "idle" /\ w.size > 0) => w.LatestPrice = lastUnlocked(w).Price

\* the newest event has side Unknown and another price than the buy before it
C25_Witness ==
    /\ pc = "idle" /\ w.size = 2
    /\ Ring(w)[1].Side = SideBuy /\ Ring(w)[1].Price = 1
    /\ Ring(w)[2].Side = SideUnknown /\ Ring(w)[2].Price = 2
    /\ w.LatestPrice = 2

C26_State == pc = "idle" => ~w.hiLoDirty

C26_Step == (TrimStep /\ w.hiLoDirty) => ~w'.hiLoDirty

\* C26: the dirty flag of the extrema is false whenever no Add is in
\* progress: an Add that set it clears it before it returns.
C26_CleanAtRest == []C26_State /\ [][C26_Step]_vars

\* an Add has evicted an extremum and is about to trim and return
C26_Witness ==
    /\ pc = "loop" /\ rem = 0
    /\ w.hiLoDirty
    /\ w.size > 0

\* ---- the queue ------------------------------------------------------------
C27_Step ==
    LoopTurn =>
        /\ (mono' /\ ~After(prevTs', threshold)) => lastOp' = "skip"
        /\ lastOp' = "skip" => (w' = w /\ lastPt' = lastPt)
        /\ lastOp' # "skip" =>
              /\ After(lastPt'.Ts, threshold)
              /\ lastUnlocked(w') = lastPt'

\* C27: in an Add, an event whose timestamp is not after the threshold (the
\* timestamp of the last event of the batch minus the duration) leaves the
\* whole window as it was: nothing stored, no aggregate changed, nothing
\* evicted from a full ring; what a turn of the loop stores is after the
\* threshold.
C27_SkipChangesNothing == [][C27_Step]_vars

\* a point of a batch was skipped on a full ring
C27_Witness ==
    /\ pc = "loop"
    /\ lastOp = "skip"
    /\ w.size = LenBuf(w)
    /\ lastPt # ZeroPoint

\* the suffixes of a sequence
Suffixes(s) == {SubSeq(s, k + 1, Len(s)) : k \in 0 .. Len(s)}

C28_Step ==
    /\ (LoopTurn /\ lastOp' = "skip") => Ring(w') = Ring(w)
    /\ (LoopTurn /\ lastOp' \in {"seat", "append"}) =>
          /\ w.size < LenBuf(w)
          /\ Ring(w') = Append(Ring(w), lastPt')
    /\ (LoopTurn /\ lastOp' = "overwrite") =>
          /\ w.size = LenBuf(w)
          /\ Ring(w') = Append(Tail(Ring(w)), lastPt')
    /\ TrimStep => Ring(w') \in Suffixes(Ring(w))
    /\ ~(LoopTurn \/ TrimStep) => Ring(w') = Ring(w)

\* C28: the sequence buf[(start + i) mod capacity], i = 0 .. size - 1, moves
\* as a FIFO queue: an accepted event goes to the tail, after the head was
\* taken off when the ring is full; the trim takes events off the head only;
\* nothing else changes it. So the retained events are a contiguous suffix
\* of the accepted ones, in the order supplied.
C28_Fifo == [][C28_Step]_vars

\* the ring has wrapped: the newest event sits in slot 0
C28_Witness ==
    /\ pc = "loop"
    /\ lastOp = "overwrite"
    /\ w.start = 1 /\ w.size = 2
    /\ w.buf[0] = lastPt
    /\ w.buf[1].Price # lastPt.Price

\* ---- a batch and its points one by one ------------------------------------
\* the batches of 1 .. 3 events with non-decreasing timestamps from t on
RECURSIVE Rising(_, _)
Rising(pts, t) ==
    pts = <<>> \/ (pts[1].Ts >= t /\ Rising(Tail(pts), pts[1].Ts))

Batches(t) ==
    {pts \in UNION {[1 .. k -> FifoEvents] : k \in 1 .. 3} : Rising(pts, t)}

Retained(win) ==
    [ring |-> Ring(win), sumVolume |-> win.sumVolume, nTrades |-> win.nTrades,
     buyVol |-> win.buyVol, sellVol |-> win.sellVol]

\* C29 as stated: the timestamps of the batch never decrease, the starting
\* window is any window
C29_Original ==
    (pc = "idle" /\ w.duration > 0) =>
        \A pts \in Batches(0) :
            Retained(add(w, pts)) = Retained(addEach(w, pts))

\* C29: with duration > 0 and timestamps that never decrease over the events
\* supplied so far and the batch, one Add of the batch leaves the same
\* retained events in the same order, sum volume, trade count, buy volume
\* and sell volume as one Add per event of the batch.
C29_BatchAsSingles ==
    (pc = "idle" /\ mono /\ w.duration > 0) =>
        \A pts \in Batches(prevTs) :
            Retained(add(w, pts)) = Retained(addEach(w, pts))

\* a full window and a batch whose first event the batch skips, while the
\* single calls store it and then trim it
C29_Witness ==
    /\ pc = "idle" /\ mono
    /\ w.size = LenBuf(w)
    /\ \E pts \in Batches(prevTs) :
          /\ Len(pts) = 2
          /\ addBranch(w, pts[1], pts[2].Ts - w.duration) = "skip"
          /\ add(w, <<pts[1]>>).buf # w.buf
          /\ Retained(add(w, pts)) = Retained(addEach(w, pts))
          /\ add(w, pts).size = 1

\* ---- a read next to an Add ------------------------------------------------
C30_Step ==
    (rpc = "cs_body" /\ rpc' # rpc
       /\ w.size >= 2
       /\ RatLT(RatZero, SumVOf(Ring(w), w.volumeScale))) =>
        IF r.op = "Snapshot" THEN r'.ret # "nil" ELSE r'.ret = "ok"

\* C30: when collectStats holds the lock on a window of at least 2 events
\* with positive total volume, VolumeWeightedAveragePrice returns ok = true
\* and Snapshot returns a record, whatever Add calls ran next to the read.
C30_ComputableRead == [][C30_Step]_vars

\* the newest retained event
Newest(win) == atUnlocked(win, win.size - 1)

\* the strictly positive volumes the baseline has observed, as
\* float64(pt.Volume) / float64(w.volumeScale): one event per completed Add
Observed ==
    {Rat(Newest(commits[i]).Volume, w.volumeScale) :
        i \in {j \in 2 .. Len(commits) : Newest(commits[j]).Volume > 0}}

\* C31 (as stated): the smoothing factor is in (0, 1] after construction, and
\* an initialized baseline lies between the smallest and the largest strictly
\* positive volume observed so far and is strictly positive.
C31_AlphaAndRange ==
    /\ FloatLT(RatZero, w.ema.Alpha) /\ FloatLE(w.ema.Alpha, RatOne)
    /\ (pc = "idle" /\ w.ema.Initialized) =>
          /\ \E lo \in Observed : FloatLE(lo, w.ema.Value)
          /\ \E hi \in Observed : FloatLE(w.ema.Value, hi)
          /\ FloatLT(RatZero, w.ema.Value)

\* with a smoothing factor that is a number, the stated range holds in exact
\* arithmetic
C31_NumberAlpha ==
    ~IsNaN(w.ema.Alpha) => C31_AlphaAndRange

\* each observation after the first sets the baseline to
\* alpha * x + (1 - alpha) * old; the first one seeds it
C31_UpdateStep ==
    (pc = "loop" /\ rem = 1 /\ pc' = "loop" /\ rem' = 0
     /\ ~IsNaN(w.ema.Alpha)) =>
        LET x == Rat(lastPt'.Volume, w.volumeScale)
        IN  /\ lastPt'.Volume <= 0 => w'.ema = w.ema
            /\ (lastPt'.Volume > 0 /\ ~w.ema.Initialized) =>
                  w'.ema = [w.ema EXCEPT !.Value = x, !.Initialized = TRUE]
            /\ (lastPt'.Volume > 0 /\ w.ema.Initialized) =>
                  w'.ema.Value =
                      RatAdd(RatMul(w.ema.Alpha, x),
                             RatMul(RatSub(RatOne, w.ema.Alpha), w.ema.Value))

C31_Update == [][C31_UpdateStep]_vars

\* a baseline strictly inside the observed range, under a factor below one
C31_Inside ==
    /\ pc = "idle" /\ w.ema.Initialized /\ ~IsNaN(w.ema.Alpha)
    /\ \E lo \in Observed : FloatLT(lo, w.ema.Value)
    /\ \E hi \in Observed : FloatLT(w.ema.Value, hi)

\* a baseline that is not a number after two observations
C31_NaNBaseline ==
    pc = "idle" /\ w.ema.Initialized /\ IsNaN(w.ema.Value)

\* the sums over the events s in unbounded integers, a negative volume
\* counting as zero
RECURSIVE TickSumV(_)
TickSumV(s) ==
    IF s = <<>> THEN 0
    ELSE (IF s[1].Volume < 0 THEN 0 ELSE s[1].Volume) + TickSumV(Tail(s))

RECURSIVE TickSumPV(_)
TickSumPV(s) ==
    IF s = <<>> THEN 0
    ELSE s[1].Price * (IF s[1].Volume < 0 THEN 0 ELSE s[1].Volume)
         + TickSumPV(Tail(s))

FitsInt64(x) == MinInt64 <= x /\ x <= MaxInt64

\* C32 (as stated): after every completed Add, SumV equals the sum of
\* max(volume, 0) over the retained events, and SumPV equals the sum of
\* price * max(volume, 0) over them modulo the width of an int64.
C32_Original ==
    pc = "idle" =>
        /\ w.SumV = TickSumV(Ring(w))
        /\ w.SumPV = Int64(TickSumPV(Ring(w)))

\* C32 (amended): after every completed Add, SumV and SumPV both equal their
\* sum over the retained events modulo the width of an int64, so each is
\* exact as soon as the sum over the retained events fits an int64, whatever
\* wrapped before.
C32_SumsModular ==
    pc = "idle" =>
        /\ w.SumV = Int64(TickSumV(Ring(w)))
        /\ w.SumPV = Int64(TickSumPV(Ring(w)))
        /\ FitsInt64(TickSumV(Ring(w))) => w.SumV = TickSumV(Ring(w))
        /\ FitsInt64(TickSumPV(Ring(w))) => w.SumPV = TickSumPV(Ring(w))

\* the call before left sums that had wrapped; the events behind the wrap are
\* evicted and both sums are exact and not zero
C32_Witness ==
    /\ pc = "idle" /\ Len(commits) >= 3
    /\ ~FitsInt64(TickSumV(Ring(commits[Len(commits) - 1])))
    /\ ~FitsInt64(TickSumPV(Ring(commits[Len(commits) - 1])))
    /\ w.size = 1
    /\ w.SumV = 1 /\ w.SumPV = 2

\* both sums wrapped while the events are retained
C32_WitnessWrapped ==
    /\ pc = "idle"
    /\ ~FitsInt64(TickSumV(Ring(w))) /\ ~FitsInt64(TickSumPV(Ring(w)))
    /\ w.SumV = Int64(TickSumV(Ring(w))) /\ w.SumV < 0

====
